---- MODULE Spec2Model ----
(***************************************************************************)
(* flexalign: the on-line mapping pipeline for one read (or one mate of a  *)
(* read pair): seeds -> anchors (peel) -> orientation fixing -> seed       *)
(* extension -> smart alignment -> PAF line, and the mapping-quality proxy *)
(* of the three workflows.                                                 *)
(*                                                                         *)
(* Sequences are over the two-letter sub-alphabet {A, T} (0 and 1), which  *)
(* is closed under complement.  Positions are 0-based as in the source; a  *)
(* slice s[a..b) of the source is Slice(s, a, b).                          *)
(***************************************************************************)
EXTENDS Integers, Sequences, FiniteSets, TLC

\* k-mer, core-mer and flank sizes (31, 15, 16 in the program), scaled so
\* that K = C + F and F/2 flank bases lie on each side of the core.
K == 3
C == 1
F == 2

\* Lengths of the read and of the reference sequence of the group.
ReadLen == 5
RefLen == 6
\* Largest number of seeds in a reference group of the peel specification.
MaxSeeds == 3

VARIABLES
    stage,      \* position of the handler working on the record
    query,      \* the read (one mate)
    reference,  \* the reference sequence of the seed group
    seeds,      \* the seed group, sorted by rpos
    indices,    \* peel: indices of the seeds not yet absorbed by an anchor
    anchors,    \* anchors produced by the peel
    pairs,      \* the candidate AnchorPairs of the paired-end workflow, best first
    paf,        \* the PAF line written for the read
    sink,       \* the bytes received by the shared output target
    writer,     \* the worker holding the mutex of the output target, 0 if free
    buffer,     \* the byte buffer of each handler of each worker
    thread,     \* each worker's position in its closure
    input,      \* the workflow and the next pair the reader hands out
    lines,      \* the lines passed to OutputBuffer::write so far
    kmers,      \* the k-mers kept by the k-mer extractor
    ranges,     \* the ranges of the range extractor
    extractor,  \* the seed extractor: its options and the passes it has run
    groups      \* the reference groups of the anchor extractor, as it sorted them

outvars == <<sink, writer, buffer, thread, input, lines>>

seedvars == <<kmers, ranges, extractor, groups>>

vars == <<stage, query, reference, seeds, indices, anchors, pairs, paf, outvars, seedvars>>

\* No input file is being processed.
OutIdle ==
    /\ sink = <<>>
    /\ writer = 0
    /\ buffer = <<>>
    /\ thread = <<>>
    /\ input = [workflow |-> "none", next |-> 0]
    /\ lines = {}

\* The extractors of the seeding specification are not in use.
SeedIdle ==
    /\ kmers = <<>>
    /\ ranges = <<>>
    /\ extractor = [max_best_flex |-> 0]
    /\ groups = <<>>

Abs(x) == IF x < 0 THEN 0 - x ELSE x
Min(x, y) == IF x < y THEN x ELSE y
Max(x, y) == IF x < y THEN y ELSE x

----------------------------------------------------------------------------
\* Seed and AnchorSeed

offsets(s, read_length) ==
    <<s.rpos - s.qpos, s.rpos - (read_length - s.length - s.qpos)>>

\* The forward frame only.
closest_offset_fwd_only(self, other, read_length) ==
    [offset |-> self.rpos - self.qpos, fwd |-> TRUE,
     indel |-> Abs((self.rpos - self.qpos) - (other.rpos - other.qpos))]

closest_offset(self, other, read_length) ==
    LET so == offsets(self, read_length)
        oo == offsets(other, read_length)
        diff_fwd == Abs(so[1] - oo[1])
        diff_rev == Abs(so[2] - oo[2])
    IN  IF diff_fwd < diff_rev
        THEN [offset |-> so[1], fwd |-> TRUE, indel |-> diff_fwd]
        ELSE [offset |-> so[2], fwd |-> FALSE, indel |-> diff_rev]

qbegin(s) == s.qpos
qend(s) == s.qpos + s.length
rbegin(s) == s.rpos
rend(s) == s.rpos + s.length

reverse(s, read_length) ==
    [s EXCEPT !.qpos = read_length - s.length - s.qpos]

\* extend_left that lengthens the seed without moving its start.
extend_left_unshifted(s, by) == [s EXCEPT !.length = s.length + by]

extend_left(s, by) ==
    [s EXCEPT !.qpos = s.qpos - by, !.rpos = s.rpos - by, !.length = s.length + by]

extend_right(s, by) == [s EXCEPT !.length = s.length + by]

\* A merge that never detects an overlap: the caller appends every seed.
merge_never_overlaps(self, other) ==
    [seed |-> self, overlap |-> "NoOverlap", panic |-> ""]

\* A merge that adds the two lengths instead of taking the union.
merge_adds_lengths(self, other) ==
    IF other.qpos >= self.qpos /\ other.qpos <= self.qpos + self.length
    THEN [seed |-> [self EXCEPT !.length = self.length + other.length],
          overlap |-> "OffsetFwdOther", panic |-> ""]
    ELSE [seed |-> self, overlap |-> "NoOverlap", panic |-> ""]

\* Merge `other` into `self`; the result carries the updated seed, the kind
\* of overlap and the message of the assertion at the top if it failed.
rpos_sorted_merge_into(self, other) ==
    LET self_start == self.qpos
        self_end == self.qpos + self.length
        other_start == other.qpos
        other_end == other.qpos + other.length
    IN  IF ~(other.qpos >= self.qpos \/ other.length > self.length)
        THEN [seed |-> self, overlap |-> "NoOverlap", panic |-> "assert merge order"]
        ELSE IF other_start >= self_start /\ other_end <= self_end
        THEN [seed |-> self, overlap |-> "ContainedOther", panic |-> ""]
        ELSE IF other_start >= self_start /\ other_start <= self_end /\ other_end > self_end
        THEN [seed |-> [self EXCEPT !.length = self.length + (other_end - self_end)],
              overlap |-> "OffsetFwdOther", panic |-> ""]
        ELSE IF self_start >= other_start /\ self_end <= other_end
        THEN [seed |-> [self EXCEPT !.qpos = other.qpos, !.length = other.length],
              overlap |-> "ContainedSelf", panic |-> ""]
        ELSE [seed |-> self, overlap |-> "NoOverlap", panic |-> ""]

contains(self, other) ==
    qbegin(self) <= qbegin(other) /\ qend(self) >= qend(other)

----------------------------------------------------------------------------
\* Anchor.  `panic` holds the message of the assertion or panic! that was hit
\* while the anchor was being worked on ("" when none was); the worker thread
\* is then gone.

Panicked(a) == a.panic # ""

from_seed(seed) ==
    [seed_count |-> 1,
     mismatches |-> seed.mismatch,
     forward |-> TRUE,
     orientation_set |-> FALSE,
     seeds |-> <<[qpos |-> seed.qpos, rpos |-> seed.rpos, length |-> seed.length]>>,
     score |-> 0,
     cigar |-> <<>>,
     reference_cigar_range |-> [start |-> 0, end |-> 0],
     panic |-> ""]

\* set_forward that commits the opposite strand and leaves the seed as it is.
set_forward_flipped(a, forward, read_length) ==
    [a EXCEPT !.orientation_set = TRUE, !.forward = ~forward]

set_forward(a, forward, read_length) ==
    LET a1 == [a EXCEPT !.orientation_set = TRUE, !.forward = forward]
    IN  IF Len(a.seeds) # 1 THEN [a1 EXCEPT !.panic = "assert one seed"]
        ELSE IF ~forward
        THEN [a1 EXCEPT !.seeds = <<reverse(a.seeds[1], read_length)>>]
        ELSE a1

add_seed(a0, seed, read_length) ==
    LET a == [a0 EXCEPT !.seed_count = a0.seed_count + 1]
        s == a.seeds[1]
    IN  IF s.qpos = seed.qpos /\ s.rpos = seed.rpos
        THEN LET a1 == IF s.length > seed.length
                       THEN [a EXCEPT !.mismatches = seed.mismatch,
                                      !.seeds[1].length = seed.length]
                       ELSE a
             IN  IF Len(a.seeds) > 1 THEN [a1 EXCEPT !.panic = "Expected only one seed"] ELSE a1
        ELSE
        LET aseed0 == [qpos |-> seed.qpos, rpos |-> seed.rpos, length |-> seed.length]
        IN  IF ~a.orientation_set /\ contains(aseed0, s)
            THEN [a EXCEPT !.seeds[1] = aseed0]
            ELSE
            LET fwd0 == seed.qpos > s.qpos /\ seed.rpos > s.rpos
                \* orientation guessed from the two seeds when it was not set
                a2 == IF a.orientation_set THEN a
                      ELSE [a EXCEPT !.forward = fwd0,
                                     !.orientation_set = TRUE,
                                     !.seeds[1] = IF fwd0 THEN s ELSE reverse(s, read_length)]
                s2 == a2.seeds[1]
                aseed == IF a2.forward THEN aseed0 ELSE reverse(aseed0, read_length)
            IN  IF aseed.qpos < s2.qpos
                THEN IF a2.orientation_set /\ a2.seed_count = 1
                     THEN [a2 EXCEPT !.orientation_set = FALSE,
                                     !.seeds[1] = IF a2.forward THEN s2
                                                  ELSE reverse(s2, read_length)]
                     ELSE a2
                ELSE
                LET last == a2.seeds[Len(a2.seeds)]
                    m == rpos_sorted_merge_into(last, aseed)
                    a3 == [a2 EXCEPT !.seeds[Len(a2.seeds)] = m.seed]
                IN  IF m.panic # "" THEN [a2 EXCEPT !.panic = m.panic]
                    ELSE IF m.overlap = "NoOverlap"
                    THEN [a3 EXCEPT !.seeds = Append(a3.seeds, aseed)]
                    ELSE a3

core_matches(a) ==
    LET RECURSIVE sum(_)
        sum(i) == IF i = 0 THEN 0 ELSE a.seeds[i].length + sum(i - 1)
    IN  sum(Len(a.seeds))

----------------------------------------------------------------------------
\* Peeling a reference group into anchors (group_into_anchor_module).

\* The inner loop of one round: `k` walks over idx[2..], `forward` is the
\* Option<bool> of the source as a sequence of length 0 or 1.
RECURSIVE peel_attach(_, _, _, _, _, _, _)
peel_attach(group, idx, k, read_length, a, forward, other_indices) ==
    IF k > Len(idx) \/ Panicked(a)
    THEN [anchor |-> a, other_indices |-> other_indices]
    ELSE LET first == group[idx[1]]
             next == group[idx[k]]
             co == closest_offset(first, next, read_length)
         IN  IF co.indel = 0 /\ (forward = <<>> \/ forward[1] = co.fwd)
             THEN LET a1 == IF forward = <<>>
                            THEN set_forward(a, co.fwd, read_length)
                            ELSE a
                      a2 == IF Panicked(a1) THEN a1 ELSE add_seed(a1, next, read_length)
                  IN  peel_attach(group, idx, k + 1, read_length, a2, <<co.fwd>>, other_indices)
             ELSE peel_attach(group, idx, k + 1, read_length, a, forward,
                              Append(other_indices, idx[k]))

\* A round that opens the anchor and lets go of every other seed.
peel_round_root_only(group, idx, read_length) ==
    [anchor |-> from_seed(group[idx[1]]), other_indices |-> <<>>]

\* One round of the outer while loop: the first remaining seed opens an
\* anchor, the seeds on its diagonal are attached, the rest are deferred.
peel_round(group, idx, read_length) ==
    peel_attach(group, idx, 2, read_length, from_seed(group[idx[1]]), <<>>, <<>>)

RECURSIVE group_into_anchor_module(_, _, _, _)
group_into_anchor_module(group, idx, read_length, acc) ==
    IF idx = <<>> THEN acc
    ELSE LET r == peel_round(group, idx, read_length)
         IN  IF Panicked(r.anchor) THEN Append(acc, r.anchor)
             ELSE group_into_anchor_module(group, r.other_indices, read_length,
                                           Append(acc, r.anchor))

----------------------------------------------------------------------------
\* Peel specification: any rpos-sorted group of in-range seeds is peeled
\* round by round.

SeedDomain ==
    { [qpos |-> q, rpos |-> r, length |-> l, mismatch |-> IF l = K THEN 0 ELSE 1] :
        q \in 0..(ReadLen - 1), r \in 0..(RefLen - 1), l \in {C, K} }

InRange(s) == s.qpos + s.length <= ReadLen /\ s.rpos + s.length <= RefLen

\* The group is empty before the seed extractor has delivered its seeds.
InitPeel ==
    /\ stage = "collect"
    /\ seeds = <<>>
    /\ indices = <<>>
    /\ anchors = <<>>
    /\ query = <<>>
    /\ reference = <<>>
    /\ pairs = <<>>
    /\ paf = [workflow |-> "none"]
    /\ OutIdle
    /\ SeedIdle

\* One more seed of the reference group, in the order of the sort by rpos.
CollectSeed ==
    /\ stage = "collect"
    /\ Len(seeds) < MaxSeeds
    /\ \E s \in SeedDomain :
        /\ InRange(s)
        /\ seeds # <<>> => seeds[Len(seeds)].rpos <= s.rpos
        /\ seeds' = Append(seeds, s)
    /\ UNCHANGED <<stage, query, reference, indices, anchors, pairs, paf, outvars, seedvars>>

\* group_into_anchor_module is entered with the group: indices are 0..len.
StartPeel ==
    /\ stage = "collect"
    /\ seeds # <<>>
    /\ indices' = [i \in 1..Len(seeds) |-> i]
    /\ stage' = "peel"
    /\ UNCHANGED <<query, reference, seeds, anchors, pairs, paf, outvars, seedvars, groups>>

PeelRound ==
    /\ stage = "peel"
    /\ indices # <<>>
    /\ LET r == peel_round(seeds, indices, ReadLen)
       IN  /\ anchors' = Append(anchors, r.anchor)
           /\ indices' = r.other_indices
           /\ stage' = IF Panicked(r.anchor) THEN "panic" ELSE "peel"
    /\ UNCHANGED <<query, reference, seeds, pairs, paf, outvars, seedvars, groups>>

PeelDone ==
    /\ stage = "peel"
    /\ indices = <<>>
    /\ stage' = "anchors"
    /\ UNCHANGED <<query, reference, seeds, indices, anchors, pairs, paf, outvars, seedvars, groups>>

NextPeel == CollectSeed \/ StartPeel \/ PeelRound \/ PeelDone

SpecPeel == InitPeel /\ [][NextPeel]_vars

\* The loops of group_into_anchor_module run on: a round that can be taken
\* is taken, and so is the return.  The weak fairness of PeelRound is
\* written out, with the guard of the round in the place of ENABLED: a
\* round always appends an anchor, so it is enabled exactly when its guard
\* holds.
PeelRoundFair ==
    \/ []<>(~(stage = "peel" /\ indices # <<>>))
    \/ []<><<PeelRound>>_vars

SpecPeelFair == SpecPeel /\ PeelRoundFair /\ WF_vars(PeelDone)

----------------------------------------------------------------------------
\* Ordering and non-overlap of the AnchorSeeds of an anchor.

SeedsAscending(a) ==
    \A i \in 1..(Len(a.seeds) - 1) :
        /\ a.seeds[i].qpos < a.seeds[i + 1].qpos
        /\ a.seeds[i].rpos < a.seeds[i + 1].rpos

SeedsNonOverlapping(a) ==
    \A i \in 1..(Len(a.seeds) - 1) :
        /\ qend(a.seeds[i]) <= qbegin(a.seeds[i + 1])
        /\ rend(a.seeds[i]) <= rbegin(a.seeds[i + 1])

\* C2: every anchor produced by peeling an rpos-sorted group has its
\* AnchorSeeds strictly ascending in qpos and in rpos, and adjacent seeds
\* a, b satisfy a.qend <= b.qbegin and a.rend <= b.rbegin.
C2_PeelOrdered ==
    \A i \in 1..Len(anchors) :
        ~Panicked(anchors[i]) => SeedsAscending(anchors[i]) /\ SeedsNonOverlapping(anchors[i])

\* A finished peel that produced an anchor with at least two AnchorSeeds on
\* the reverse strand.
C2_Witness ==
    /\ stage = "anchors"
    /\ \E i \in 1..Len(anchors) :
        Len(anchors[i].seeds) >= 2 /\ ~anchors[i].forward

----------------------------------------------------------------------------
\* Sequences, reverse complement and the flex-mer index lookup.

Bases == {0, 1}

Slice(s, from, to) == SubSeq(s, from + 1, to)

revcomp(s) == [i \in 1..Len(s) |-> 1 - s[Len(s) + 1 - i]]

\* Number of positions at which the two slices differ (zip semantics: the
\* longer one is cut to the length of the shorter one).
hamming(q, r) == Cardinality({i \in 1..Min(Len(q), Len(r)) : q[i] # r[i]})

RECURSIVE SeqLess(_, _)
SeqLess(x, y) ==
    IF x = <<>> \/ y = <<>> THEN x = <<>> /\ y # <<>>
    ELSE IF Head(x) # Head(y) THEN Head(x) < Head(y)
    ELSE SeqLess(Tail(x), Tail(y))

middle(kmer) == Slice(kmer, F \div 2, F \div 2 + C)
flanks(kmer) == Slice(kmer, 0, F \div 2) \o Slice(kmer, F \div 2 + C, K)

\* The k-mer as it is read, whatever its core-mer.
canonical_always_fwd(kmer_fwd) == kmer_fwd

\* The k-mer in the orientation whose core-mer is the smaller one.
canonical(kmer_fwd) ==
    LET kmer_rev == revcomp(kmer_fwd)
    IN  IF SeqLess(middle(kmer_fwd), middle(kmer_rev)) THEN kmer_fwd ELSE kmer_rev

\* Reference positions stored under the canonical core-mer of the query
\* k-mer at `pos`, and the flank distance of each of them.
get_vrange(q, ref, pos) ==
    { rpos \in 0..(Len(ref) - K) :
        middle(canonical(Slice(ref, rpos, rpos + K)))
            = middle(canonical(Slice(q, pos, pos + K))) }

dist(q, ref, pos, rpos) ==
    hamming(flanks(canonical(Slice(q, pos, pos + K))),
            flanks(canonical(Slice(ref, rpos, rpos + K))))

from_flexmer(qpos, rpos, d) ==
    [qpos |-> IF d = 0 THEN qpos ELSE qpos + F \div 2,
     rpos |-> IF d = 0 THEN rpos ELSE rpos + F \div 2,
     mismatch |-> d,
     length |-> IF d = 0 THEN K ELSE C]

\* Seeds of one sampled k-mer position: the occurrences at minimal flank
\* distance.
retrieve_seeds(q, ref, pos) ==
    LET range == get_vrange(q, ref, pos)
        min_dist == CHOOSE d \in 0..F :
                        /\ \E rpos \in range : dist(q, ref, pos, rpos) = d
                        /\ \A rpos \in range : dist(q, ref, pos, rpos) >= d
    IN  IF range = {} THEN {}
        ELSE { [pos |-> pos, seed |-> from_flexmer(pos, rpos, dist(q, ref, pos, rpos))] :
                 rpos \in {r \in range : dist(q, ref, pos, r) = min_dist} }

\* The seeds of the sampled positions, stably sorted by rpos (seeds of equal
\* rpos stay in the order of their k-mer positions).
RECURSIVE sort_by_rpos(_)
sort_by_rpos(set) ==
    IF set = {} THEN <<>>
    ELSE LET first == CHOOSE e \in set : \A o \in set :
                          \/ e.seed.rpos < o.seed.rpos
                          \/ e.seed.rpos = o.seed.rpos /\ e.pos <= o.pos
         IN  <<first.seed>> \o sort_by_rpos(set \ {first})

generate_seeds(q, ref, positions) ==
    sort_by_rpos(UNION { retrieve_seeds(q, ref, pos) : pos \in positions })

----------------------------------------------------------------------------
\* Orientation fixing (anchor_sorter.rs, fix_anchor) and its helpers.

qrange_ok(s, q) == 0 <= s.qpos /\ s.qpos + s.length <= Len(q)
rrange_ok(s, ref) == 0 <= s.rpos /\ s.rpos + s.length <= Len(ref)

seed_match(s, q, ref) ==
    hamming(Slice(q, s.qpos, s.qpos + s.length), Slice(ref, s.rpos, s.rpos + s.length)) = 0

are_all_seeds_valid(anc, q, ref) ==
    \A i \in 1..Len(anc.seeds) : seed_match(anc.seeds[i], q, ref)

get_seed_config(seed, q, q_rc, ref) ==
    LET seed_rc == reverse(seed, Len(q))
    IN  IF seed_match(seed_rc, q_rc, ref) THEN "QueryRCSeedRC"
        ELSE IF seed_match(seed, q, ref) THEN "QuerySeed"
        ELSE IF seed_match(seed_rc, q, ref) THEN "QuerySeedRC"
        ELSE IF seed_match(seed, q_rc, ref) THEN "QueryRCSeed"
        ELSE "None"

reverse_seeds(anc, read_length) ==
    [anc EXCEPT !.seeds = [i \in 1..Len(anc.seeds) |-> reverse(anc.seeds[i], read_length)]]

set_config(anc, config, read_length) ==
    CASE config = "QueryRCSeedRC" -> set_forward(anc, FALSE, read_length)
      [] config = "QuerySeedRC" -> [reverse_seeds(anc, read_length) EXCEPT !.forward = TRUE]
      [] config = "QueryRCSeed" -> [anc EXCEPT !.forward = FALSE]
      [] config = "QuerySeed" -> [anc EXCEPT !.forward = TRUE]
      [] OTHER -> anc

strand(anc, q, q_rc) == IF anc.forward THEN q ELSE q_rc

fix_anchor(anc, q, q_rc, ref) ==
    IF are_all_seeds_valid(anc, strand(anc, q, q_rc), ref) THEN anc
    ELSE IF ~(anc.orientation_set \/ Len(anc.seeds) <= 1)
    THEN [anc EXCEPT !.panic = "assert orientation_set"]
    ELSE
    LET first_seed_config == get_seed_config(anc.seeds[1], q, q_rc, ref)
        none_at == {i \in 1..Len(anc.seeds) : get_seed_config(anc.seeds[i], q, q_rc, ref) = "None"}
        index == CHOOSE i \in none_at : \A j \in none_at : i <= j
        configured ==
            IF first_seed_config = "None"
            THEN IF none_at = {} THEN [anc EXCEPT !.panic = "Nothing correct?"]
                 ELSE set_config([anc EXCEPT !.seeds = <<anc.seeds[index]>>],
                                 get_seed_config(anc.seeds[index], q, q_rc, ref), Len(q))
            ELSE set_config(anc, first_seed_config, Len(q))
        split == [configured EXCEPT !.seeds = <<configured.seeds[1]>>]
    IN  IF Panicked(configured) THEN configured
        ELSE IF are_all_seeds_valid(configured, strand(configured, q, q_rc), ref) THEN configured
        ELSE IF are_all_seeds_valid(split, strand(split, q, q_rc), ref) THEN split
        ELSE [split EXCEPT !.panic = "assert are_all_seeds_valid"]

----------------------------------------------------------------------------
\* Flank and gap ranges of an anchor, seed extension (extend_seeds).

\* A Rust slice s[from..to] panics unless from <= to <= len.
slice_ok(s, from, to) == 0 <= from /\ from <= to /\ to <= Len(s)

left_flank(anc) ==
    LET s == anc.seeds[1]
        overhang_length == Min(qbegin(s), rbegin(s))
    IN  [q |-> [start |-> qbegin(s) - overhang_length, end |-> qbegin(s)],
         r |-> [start |-> rbegin(s) - overhang_length, end |-> rbegin(s)]]

right_flank(anc, read_length, ref_length) ==
    LET s == anc.seeds[Len(anc.seeds)]
        overhang_length == Min(read_length - qend(s), ref_length - rend(s))
    IN  [q |-> [start |-> qend(s), end |-> qend(s) + overhang_length],
         r |-> [start |-> rend(s), end |-> rend(s) + overhang_length]]

between(s1, s2) ==
    [q |-> [start |-> qend(s1), end |-> qbegin(s2)],
     r |-> [start |-> rend(s1), end |-> rbegin(s2)]]

whole(anc, read_length, ref_length) ==
    LET s == anc.seeds[1]
        left_overhang_length == Min(qbegin(s), rbegin(s))
        right_overhang_length == Min(read_length - qend(s), ref_length - rend(s))
    IN  [q |-> [start |-> qbegin(s) - left_overhang_length, end |-> qend(s) + right_overhang_length],
         r |-> [start |-> rbegin(s) - left_overhang_length, end |-> rend(s) + right_overhang_length]]

range_len(rg) == IF rg.end > rg.start THEN rg.end - rg.start ELSE 0

\* zip(q, r).enumerate().find(a != b): the number of equal leading pairs.
leading_match(q, r) ==
    LET n == Min(Len(q), Len(r))
    IN  CHOOSE k \in 0..n :
            /\ \A i \in 1..k : q[i] = r[i]
            /\ k = n \/ q[k + 1] # r[k + 1]

\* A scan from the right that stops at once.
trailing_match_none(q, r) == 0

\* zip(q, r).rev().enumerate().find(a != b): the number of equal trailing
\* pairs.
trailing_match(q, r) ==
    LET n == Min(Len(q), Len(r))
    IN  CHOOSE k \in 0..n :
            /\ \A i \in (n - k + 1)..n : q[i] = r[i]
            /\ k = n \/ q[n - k] # r[n - k]

\* The loop over the gaps without the merge of two seeds whose gap matches
\* entirely: both neighbours are extended over the gap.
RECURSIVE extend_middle_no_merge(_, _, _, _)
extend_middle_no_merge(anc, current_i, q, ref) ==
    LET next_i == current_i + 1
    IN  IF Panicked(anc) \/ next_i > Len(anc.seeds) THEN anc
        ELSE
        LET middle_range == between(anc.seeds[current_i], anc.seeds[next_i])
        IN  IF ~slice_ok(q, middle_range.q.start, middle_range.q.end)
               \/ ~slice_ok(ref, middle_range.r.start, middle_range.r.end)
            THEN [anc EXCEPT !.panic = "slice index"]
            ELSE
            LET middle_q == Slice(q, middle_range.q.start, middle_range.q.end)
                middle_r == Slice(ref, middle_range.r.start, middle_range.r.end)
            IN  extend_middle_no_merge(
                    [anc EXCEPT !.seeds[next_i] =
                                    extend_left(anc.seeds[next_i],
                                                trailing_match(middle_q, middle_r)),
                                !.seeds[current_i] =
                                    extend_right(anc.seeds[current_i],
                                                 leading_match(middle_q, middle_r))],
                    next_i, q, ref)

\* The while loop over the gaps between consecutive seeds.
RECURSIVE extend_middle(_, _, _, _)
extend_middle(anc, current_i, q, ref) ==
    LET next_i == current_i + 1
    IN  IF Panicked(anc) \/ next_i > Len(anc.seeds) THEN anc
        ELSE
        LET middle_range == between(anc.seeds[current_i], anc.seeds[next_i])
        IN  IF ~slice_ok(q, middle_range.q.start, middle_range.q.end)
               \/ ~slice_ok(ref, middle_range.r.start, middle_range.r.end)
            THEN [anc EXCEPT !.panic = "slice index"]
            ELSE
            LET middle_q == Slice(q, middle_range.q.start, middle_range.q.end)
                middle_r == Slice(ref, middle_range.r.start, middle_range.r.end)
                n == Min(Len(middle_q), Len(middle_r))
                by == trailing_match(middle_q, middle_r)
            IN  IF by = n
                THEN \* the whole gap matches: the two seeds become one
                     LET right_len == anc.seeds[next_i].length
                         merged == extend_right(anc.seeds[current_i], Len(middle_q) + right_len)
                     IN  extend_middle(
                             [anc EXCEPT !.seeds =
                                 [i \in 1..(Len(anc.seeds) - 1) |->
                                     IF i < current_i THEN anc.seeds[i]
                                     ELSE IF i = current_i THEN merged
                                     ELSE anc.seeds[i + 1]]],
                             current_i, q, ref)
                ELSE extend_middle(
                         [anc EXCEPT !.seeds[next_i] = extend_left(anc.seeds[next_i], by),
                                     !.seeds[current_i] =
                                         extend_right(anc.seeds[current_i],
                                                      leading_match(middle_q, middle_r))],
                         next_i, q, ref)

\* The left flank of extend_seeds: the first seed grows to the left.
extend_left_flank(anc, q, ref) ==
    LET left_range == left_flank(anc)
    IN  IF left_range.q.start + range_len(left_range.q) > Len(q)
        THEN [anc EXCEPT !.panic = "Issues here"]
        ELSE IF ~slice_ok(ref, left_range.r.start, left_range.r.end)
        THEN [anc EXCEPT !.panic = "slice index"]
        ELSE [anc EXCEPT !.seeds[1] =
                 extend_left(anc.seeds[1],
                             trailing_match(Slice(q, left_range.q.start, left_range.q.end),
                                            Slice(ref, left_range.r.start, left_range.r.end)))]

\* The right flank of extend_seeds: the last seed grows to the right.
extend_right_flank(mid, q, ref) ==
    IF Panicked(mid) THEN mid
    ELSE
    LET last == Len(mid.seeds)
        right_range == right_flank(mid, Len(q), Len(ref))
    IN  IF qend(mid.seeds[last]) > Len(q) \/ rend(mid.seeds[last]) > Len(ref)
        THEN [mid EXCEPT !.panic = "subtract with overflow"]
        ELSE [mid EXCEPT !.seeds[last] =
                 extend_right(mid.seeds[last],
                              leading_match(Slice(q, right_range.q.start, right_range.q.end),
                                            Slice(ref, right_range.r.start, right_range.r.end)))]

extend_seeds(anc, q, ref) ==
    IF ~anc.orientation_set THEN anc
    ELSE extend_right_flank(extend_middle(extend_left_flank(anc, q, ref), 1, q, ref), q, ref)

\* Anchor::hamming: mismatches over the gap-free span of the first seed's
\* diagonal.
anchor_hamming(anc, q, ref) ==
    LET w == whole(anc, Len(q), Len(ref))
    IN  hamming(Slice(q, w.q.start, w.q.end), Slice(ref, w.r.start, w.r.end))

any_orientation_valid(anc, q, q_rc, ref) ==
    IF are_all_seeds_valid(anc, q, ref) \/ are_all_seeds_valid(anc, q_rc, ref)
    THEN anc
    ELSE [anc EXCEPT !.seeds[1] = reverse(anc.seeds[1], Len(q))]

----------------------------------------------------------------------------
\* The sorter's work on one AnchorPair after orientation fixing
\* (PairedAnchorSorter::sort); a2_set tells whether the pair's other anchor
\* is present with its orientation set.

first_two_swapped(anc) ==
    Len(anc.seeds) > 1 /\ qbegin(anc.seeds[1]) > qbegin(anc.seeds[2])

\* The score of an extended anchor: the read length minus Anchor::hamming.
score_extended(extended, sq, ref) ==
    IF Panicked(extended) THEN extended
    ELSE [extended EXCEPT !.score = Len(sq) - anchor_hamming(extended, sq, ref)]

\* The checks on an extended anchor: adjacent seeds must not overlap, the
\* first two seeds must be in query order.
check_extended(scored) ==
    IF Panicked(scored) THEN scored
    ELSE IF ~(\A i \in 1..(Len(scored.seeds) - 1) :
                /\ qend(scored.seeds[i]) <= qbegin(scored.seeds[i + 1])
                /\ rend(scored.seeds[i]) <= rbegin(scored.seeds[i + 1]))
    THEN [scored EXCEPT !.panic = "adjacent seeds overlap"]
    ELSE IF first_two_swapped(scored) THEN [scored EXCEPT !.panic = "B"]
    ELSE scored

\* The order check of the pass that follows the loop (T), on every anchor,
\* extended or not.
check_refined(refined) ==
    IF Panicked(refined) THEN refined
    ELSE IF first_two_swapped(refined) THEN [refined EXCEPT !.panic = "T"]
    ELSE refined

sort_pair(anc, a2_set, q, q_rc, ref) ==
    check_refined(
        IF ~anc.orientation_set \/ ~a2_set
        THEN any_orientation_valid(anc, q, q_rc, ref)
        ELSE check_extended(
                 score_extended(extend_seeds(anc, strand(anc, q, q_rc), ref),
                                strand(anc, q, q_rc), ref)))

----------------------------------------------------------------------------
\* The gap-affine aligner behind LIBWFA2Alignment::align.  The wavefront
\* aligner is exact: it returns an alignment of least penalty for the two
\* slices it is given, the free end gaps costing nothing; which one among
\* several of least penalty is not determined here.  In its CIGAR, M and X
\* consume a base of both slices, I a base of the reference slice only and
\* D a base of the query slice only.

\* Penalties of LIBWFA2Alignment::default (match 0).
MismatchPenalty == 4
GapOpening == 6
GapExtension == 2

MinI32 == -2147483647 - 1

Repeat(ch, n) == [i \in 1..n |-> ch]

\* End-to-end alignments of q[i..] with r[j..] of penalty at most `budget`;
\* a trailing run of at most qe query bases or re reference bases is free.
RECURSIVE wfa_paths(_, _, _, _, _, _, _, _)
wfa_paths(q, r, i, j, last, budget, qe, re) ==
    LET n == Len(q)
        m == Len(r)
        free_tail ==
            IF i = n /\ j = m THEN {[cigar |-> <<>>, penalty |-> 0]}
            ELSE IF i = n /\ m - j <= re THEN {[cigar |-> Repeat("I", m - j), penalty |-> 0]}
            ELSE IF j = m /\ n - i <= qe THEN {[cigar |-> Repeat("D", n - i), penalty |-> 0]}
            ELSE {}
        step(op, cost, di, dj) ==
            IF cost > budget THEN {}
            ELSE { [cigar |-> <<op>> \o p.cigar, penalty |-> cost + p.penalty] :
                     p \in wfa_paths(q, r, i + di, j + dj, op, budget - cost, qe, re) }
        diag ==
            IF i < n /\ j < m
            THEN IF q[i + 1] = r[j + 1] THEN step("M", 0, 1, 1)
                 ELSE step("X", MismatchPenalty, 1, 1)
            ELSE {}
        ins ==
            IF j < m
            THEN step("I", IF last = "I" THEN GapExtension ELSE GapOpening + GapExtension, 0, 1)
            ELSE {}
        del ==
            IF i < n
            THEN step("D", IF last = "D" THEN GapExtension ELSE GapOpening + GapExtension, 1, 0)
            ELSE {}
    IN  free_tail \cup diag \cup ins \cup del

\* Alignments that start with a free leading gap of at most qs query bases
\* or rs reference bases.
wfa_candidates(q, r, qs, qe, rs, re, budget) ==
    UNION ({ { [cigar |-> Repeat("D", lead) \o p.cigar, penalty |-> p.penalty] :
                p \in wfa_paths(q, r, lead, 0, "", budget, qe, re) } :
             lead \in 0..Min(qs, Len(q)) }
           \cup
           { { [cigar |-> Repeat("I", lead) \o p.cigar, penalty |-> p.penalty] :
                p \in wfa_paths(q, r, 0, lead, "", budget, qe, re) } :
             lead \in 1..Min(rs, Len(r)) })

\* Penalty of the alignment that walks the common diagonal from the start
\* and closes the length difference with one gap at the end: an upper bound
\* of the least penalty.
wfa_upper_bound(q, r) ==
    MismatchPenalty * hamming(q, r)
        + (IF Len(q) = Len(r) THEN 0
           ELSE GapOpening + GapExtension * Abs(Len(q) - Len(r)))

\* align(q, r) under set_ends_free(qs, qe, rs, re) and
\* set_max_alignment_score(max_steps): the possible (score, cigar, status).
align(q, r, qs, qe, rs, re, max_steps) ==
    LET candidates == wfa_candidates(q, r, qs, qe, rs, re, wfa_upper_bound(q, r))
        least == CHOOSE p \in candidates : \A o \in candidates : p.penalty <= o.penalty
    IN  IF least.penalty > 0 /\ least.penalty >= max_steps
        THEN {[score |-> MinI32, cigar |-> <<>>, status |-> "Dropped"]}
        ELSE { [score |-> 0 - p.penalty, cigar |-> p.cigar, status |-> "OK"] :
                 p \in {c \in candidates : c.penalty = least.penalty} }

----------------------------------------------------------------------------
\* Cigar helpers (sam.rs) and the three stages of smart_align.

add_softclip(cigar, n) == cigar \o Repeat("S", n)
\* add_matches that writes one operation too few.
add_matches_short(cigar, n) == cigar \o Repeat("M", n - 1)

add_matches(cigar, n) == cigar \o Repeat("M", n)

count_leading_chars(cigar, ch) ==
    CHOOSE k \in 0..Len(cigar) :
        /\ \A i \in 1..k : cigar[i] = ch
        /\ k = Len(cigar) \/ cigar[k + 1] # ch

count_trailing_chars(cigar, ch) ==
    CHOOSE k \in 0..Len(cigar) :
        /\ \A i \in (Len(cigar) - k + 1)..Len(cigar) : cigar[i] = ch
        /\ k = Len(cigar) \/ cigar[Len(cigar) - k] # ch

\* The possible outcomes [anchor, score, status] of the left flank.
align_left_flank(anc, q, ref, free_ends, max_steps) ==
    LET lr == left_flank(anc)
        qlen == range_len(lr.q)
        rlen == range_len(lr.r)
    IN  IF qlen = 0 \/ rlen = 0
        THEN {[anchor |-> [anc EXCEPT !.cigar = add_softclip(anc.cigar, Max(qlen, rlen)),
                                      !.reference_cigar_range.start = lr.r.start - Max(qlen, rlen)],
               score |-> 0, status |-> "OK"]}
        ELSE
        LET q_dove == Min(free_ends, lr.q.start)
            r_dove == Min(free_ends, lr.r.start)
            qstart == lr.q.start - q_dove
            rstart == lr.r.start - r_dove
            results == align(Slice(q, qstart, lr.q.end), Slice(ref, rstart, lr.r.end),
                             q_dove, 0, r_dove, 0, max_steps)
        IN  { IF res.status # "OK"
              THEN [anchor |-> anc, score |-> MinI32, status |-> "Dropped"]
              ELSE LET q_inserts == count_leading_chars(res.cigar, "I")
                       r_deletions == count_leading_chars(res.cigar, "D")
                       q_softclip == Min(r_deletions, q_dove)
                       r_offset == Min(q_inserts, r_dove)
                   IN  [anchor |->
                            [anc EXCEPT
                                !.cigar = add_softclip(anc.cigar, q_softclip)
                                          \o SubSeq(res.cigar, r_offset + q_softclip + 1, Len(res.cigar)),
                                !.reference_cigar_range.start = rstart + r_offset],
                        score |-> res.score, status |-> "OK"]
              : res \in results }

\* The possible outcomes [anchor, score, status] of the right flank.
align_right_flank(anc, q, ref, free_ends, max_steps) ==
    LET rr == right_flank(anc, Len(q), Len(ref))
    IN  IF range_len(rr.q) = 0 \/ range_len(rr.r) = 0
        THEN {[anchor |-> [anc EXCEPT !.cigar = add_softclip(anc.cigar, range_len(rr.q)),
                                      !.reference_cigar_range.end = rr.r.end],
               score |-> 0, status |-> "OK"]}
        ELSE
        LET q_end == Min(rr.q.end + free_ends, Len(q))
            r_end == Min(rr.r.end + free_ends, Len(ref))
            q_dove == q_end - rr.q.end
            r_dove == r_end - rr.r.end
            results == align(Slice(q, rr.q.start, q_end), Slice(ref, rr.r.start, r_end),
                             0, q_dove, 0, r_dove, max_steps)
        IN  { IF res.status # "OK"
              THEN [anchor |-> anc, score |-> MinI32, status |-> res.status]
              ELSE LET q_inserts == count_trailing_chars(res.cigar, "I")
                       r_deletions == count_trailing_chars(res.cigar, "D")
                       q_softclip == Min(r_deletions, q_dove)
                       r_offset == Min(q_inserts, r_dove)
                   IN  [anchor |->
                            [anc EXCEPT
                                !.cigar = add_softclip(
                                    anc.cigar \o SubSeq(res.cigar, 1,
                                                        Len(res.cigar) - (r_offset + q_softclip)),
                                    q_softclip),
                                !.reference_cigar_range.end = r_end - r_offset],
                        score |-> res.score, status |-> "OK"]
              : res \in results }

\* The gaps between consecutive seeds, compared base by base; `err` is the
\* AlignmentError of an Err result ("" for Ok).
RECURSIVE align_gaps(_, _, _, _, _, _)
align_gaps(anc, q, ref, next_i, max_score, score) ==
    IF next_i > Len(anc.seeds)
    THEN [anchor |-> anc, score |-> score, status |-> "OK", max_score |-> max_score, err |-> ""]
    ELSE
    LET middle_range == between(anc.seeds[next_i - 1], anc.seeds[next_i])
        failed(e) == [anchor |-> anc, score |-> score, status |-> "Dropped",
                      max_score |-> max_score, err |-> e]
    IN  IF middle_range.q.start > middle_range.q.end \/ middle_range.r.start > middle_range.r.end
        THEN failed("InvalidRangeError")
        ELSE IF middle_range.q.end >= Len(q) THEN failed("QueryRangeError")
        ELSE IF middle_range.r.end >= Len(ref) THEN failed("ReferenceRangeError")
        ELSE
        LET middle_q == Slice(q, middle_range.q.start, middle_range.q.end)
            middle_r == Slice(ref, middle_range.r.start, middle_range.r.end)
            n == Min(Len(middle_q), Len(middle_r))
            mismatches == hamming(middle_q, middle_r)
            gap == [i \in 1..n |-> IF middle_q[i] = middle_r[i] THEN "M" ELSE "X"]
            max_score1 == max_score - mismatches * MismatchPenalty
            score1 == score - mismatches * MismatchPenalty
            gapped == [anc EXCEPT !.cigar = anc.cigar \o gap]
        IN  IF max_score1 < 0
            THEN [anchor |-> gapped, score |-> MinI32, status |-> "Dropped",
                  max_score |-> max_score1, err |-> ""]
            ELSE align_gaps([gapped EXCEPT !.cigar = add_matches(gapped.cigar,
                                                                 anc.seeds[next_i].length)],
                            q, ref, next_i + 1, max_score1, score1)

\* align_middle with one mismatch more than the budget allows.
align_middle_lenient(anc, q, ref, max_score) ==
    align_gaps([anc EXCEPT !.cigar = add_matches(anc.cigar, anc.seeds[1].length)],
               q, ref, 2, max_score + MismatchPenalty, 0)

align_middle(anc, q, ref, max_score) ==
    align_gaps([anc EXCEPT !.cigar = add_matches(anc.cigar, anc.seeds[1].length)],
               q, ref, 2, max_score, 0)

MaxI32 == 0 - (MinI32 + 1)

\* An addition of two i32 that leaves the range of i32: it panics in a build
\* with overflow checks and wraps in a build without.
add_overflows(x, y) ==
    \/ y < 0 /\ x < MinI32 - y
    \/ y > 0 /\ x > MaxI32 - y

\* The possible outcomes [anchor, status] of smart_align; a panic is left
\* in the anchor's panic field.
smart_align(anc, q, ref, free_ends, max_score) ==
    LET start == [anc EXCEPT !.cigar = <<>>]
        after_middle(l) ==
            LET m == align_middle(l.anchor, q, ref, max_score + l.score)
            IN  IF m.err # ""
                THEN {[anchor |-> [m.anchor EXCEPT !.panic = "Non recoverable error"],
                       status |-> "Dropped"]}
                ELSE IF m.status # "OK"
                THEN \* alignment_score += score comes before the status is looked at
                     IF add_overflows(l.score, m.score)
                     THEN {[anchor |-> [m.anchor EXCEPT !.panic = "attempt to add with overflow"],
                            status |-> "Dropped"],
                           [anchor |-> m.anchor, status |-> "Dropped"]}
                     ELSE {[anchor |-> m.anchor, status |-> "Dropped"]}
                ELSE { IF r.status # "OK" THEN [anchor |-> r.anchor, status |-> "Dropped"]
                       ELSE IF ~(r.anchor.reference_cigar_range.start
                                   < r.anchor.reference_cigar_range.end)
                       THEN [anchor |-> [r.anchor EXCEPT !.panic = "assert reference_cigar_range"],
                             status |-> "Dropped"]
                       ELSE [anchor |-> [r.anchor EXCEPT !.score = l.score + m.score + r.score],
                             status |-> "OK"]
                       : r \in align_right_flank(m.anchor, q, ref, free_ends, m.max_score + 1) }
    IN  UNION { IF l.status # "OK" THEN {[anchor |-> l.anchor, status |-> "Dropped"]}
                ELSE after_middle(l)
                : l \in align_left_flank(start, q, ref, free_ends, max_score + 1) }

----------------------------------------------------------------------------
\* Refinement specification: one read (mate one of a pair, or a single-end
\* read) against one reference group.  The paired-end workflow
\* (ModularPE::run) carries the list of candidate AnchorPairs through
\* pairing, the sorter, the aligner and the output; the single-end workflows
\* (Modular::run, Standard::run) write their line from the peeled anchors.

\* Largest number of sampled k-mer positions of the read.
MaxKmers == 2

\* free_ends passed to smart_align (10 in the program), scaled with the read.
FreeEnds == 1

\* Defaults of --extend-top-x and --align-top-y.
extend_top_x == 4
align_top_y == 4

\* ani_abort_score(0.5, mismatch, overlap_length): ceil(overlap_length *
\* mismatch / 2).
ani_abort_score(mismatch, overlap_length) == (overlap_length * mismatch + 1) \div 2

NoLine == [workflow |-> "none"]

\* The indices of `keys` in ascending order of key, equal keys in their
\* original order (glidesort is stable).
RECURSIVE stable_order(_, _)
stable_order(keys, rest) ==
    IF rest = {} THEN <<>>
    ELSE LET i == CHOOSE x \in rest :
                    \A y \in rest : keys[x] < keys[y] \/ (keys[x] = keys[y] /\ x <= y)
         IN  <<i>> \o stable_order(keys, rest \ {i})

sort_by_key(list, keys) ==
    LET order == stable_order(keys, DOMAIN list)
    IN  [i \in DOMAIN list |-> list[order[i]]]

\* `as u8` of an integer.
as_u8(x) == x % 256

\* StdAnchorScore::score and StdPairedAnchorMAPQ::score.
anchor_score(a) == core_matches(a) - a.mismatches

\* The other mate's anchor a2 is the same anchor in every pair of the list.
\* It is a mate of ReadLen bases that matches the reference exactly and was
\* seeded by one k-mer: K core matches before the sorter extends it, the
\* whole read after, and a sorter score of the read length once extended.  Of a2 itself a pair
\* keeps only its presence and orientation:
\*   "none"       no anchor of the other mate on this reference
\*   "unset_fwd"  orientation not set, seed valid on the forward read
\*   "unset_rc"   orientation not set, seed valid on the reverse complement
\*   "set_fwd", "set_rev"  orientation set
A2Kinds == {"none", "unset_fwd", "unset_rc", "set_fwd", "set_rev"}

a2_is_set(kind) == kind \in {"set_fwd", "set_rev"}

a2_anchor_score(p) ==
    IF p.a2 = "none" THEN 0 ELSE IF p.extended THEN ReadLen ELSE K

a2_sorter_score(p) ==
    IF p.a2 # "none" /\ p.extended THEN ReadLen ELSE 0

\* AnchorPair::resolve_orientation.
resolve_orientation(a1, kind, read_length) ==
    LET r1 == IF ~a1.orientation_set /\ a2_is_set(kind)
              THEN set_forward(a1, kind # "set_fwd", read_length)
              ELSE a1
        r2 == IF ~a2_is_set(kind) /\ r1.orientation_set
              THEN IF r1.forward THEN "set_rev" ELSE "set_fwd"
              ELSE kind
    IN  [a1 |-> r1, a2 |-> r2, extended |-> FALSE, status |-> "none"]

\* The pairing part of StdPairedAnchorExtractor::generate for the group of
\* this reference: anchors_fwd are the peeled anchors of mate one,
\* anchors_rev holds the one anchor a2 of the other mate, if any.
pair_up(anchors_fwd, kind, read_length) ==
    LET n == Len(anchors_fwd)
        unpaired(a) == [a1 |-> a, a2 |-> kind, extended |-> FALSE, status |-> "none"]
        list == IF kind = "none"
                THEN [i \in 1..n |-> unpaired(anchors_fwd[n + 1 - i])]
                ELSE IF n <= 1
                THEN [i \in 1..n |-> unpaired(anchors_fwd[i])]
                ELSE [i \in 1..n |-> resolve_orientation(anchors_fwd[i], kind, read_length)]
    IN  sort_by_key(list, [i \in 1..n |-> 0 - (anchor_score(list[i].a1) + a2_anchor_score(list[i]))])

\* fix_anchor on the other mate's anchor.
a2_fix_anchor(kind) == IF kind = "unset_rc" THEN "set_rev" ELSE kind

\* First pass of PairedAnchorHeuristicSorter::sort over one pair.
fix_pair(p, q, q_rc, ref) ==
    [p EXCEPT !.a1 = IF first_two_swapped(p.a1) THEN [p.a1 EXCEPT !.panic = "Y"]
                     ELSE fix_anchor(p.a1, q, q_rc, ref),
              !.a2 = a2_fix_anchor(p.a2)]

gated(p) == ~p.a1.orientation_set \/ ~a2_is_set(p.a2)

\* Second pass over one pair.
extend_pair(p, q, q_rc, ref) ==
    [p EXCEPT !.a1 = sort_pair(p.a1, a2_is_set(p.a2), q, q_rc, ref),
              !.extended = ~gated(p)]

any_panicked(ps) == \E i \in 1..Len(ps) : Panicked(ps[i].a1)

\* The score ceiling of the next anchor, from the ceiling and the score of
\* the anchor just aligned.
lower_ceiling(min_score, score) ==
    IF score # MinI32 /\ 0 - score < min_score THEN 0 - score ELSE min_score

\* The alignment loop of ModularPE::run over the pairs from index i on; the
\* set of lists it can leave, one per choice of the aligner among equally
\* good alignments.
RECURSIVE align_pairs(_, _, _, _, _, _)
align_pairs(ps, i, min_score_1, q, q_rc, ref) ==
    IF i > Min(align_top_y, Len(ps)) THEN {ps}
    ELSE UNION {
            LET done == [ps EXCEPT ![i].a1 = res.anchor, ![i].status = res.status]
                lowered == lower_ceiling(min_score_1, res.anchor.score)
            IN  IF Panicked(res.anchor) THEN {done}
                ELSE align_pairs(done, i + 1, lowered, q, q_rc, ref)
            : res \in smart_align(ps[i].a1, strand(ps[i].a1, q, q_rc), ref,
                                  FreeEnds, min_score_1) }

\* StdPairedAnchorMAPQ::anchor_mapq.
score_paired(p) == anchor_score(p.a1) + a2_anchor_score(p)

anchor_mapq(ps) ==
    IF Len(ps) <= 1 THEN 0
    ELSE as_u8(score_paired(ps[1]) - score_paired(ps[2]))

\* The fields of a PAF line that depend on the reported anchor.
paf_line(workflow, anc, q, ref, matches, mapq) ==
    [workflow |-> workflow,
     qlen |-> Len(q),
     qstart |-> qbegin(anc.seeds[1]),
     qend |-> qend(anc.seeds[Len(anc.seeds)]),
     forward |-> anc.forward,
     rlen |-> Len(ref),
     rstart |-> rbegin(anc.seeds[1]),
     rend |-> rend(anc.seeds[Len(anc.seeds)]),
     matches |-> matches,
     mapq |-> mapq]

----------------------------------------------------------------------------
\* The tail of the single-end workflows.

\* Anchor::indels.
indels(a) ==
    LET RECURSIVE sum(_)
        sum(i) == IF i = 0 THEN 0
                  ELSE Abs((a.seeds[i + 1].qpos - a.seeds[i].qpos)
                           - (a.seeds[i + 1].rpos - a.seeds[i].rpos)) + sum(i - 1)
    IN  IF Len(a.seeds) <= 1 THEN 0 ELSE sum(Len(a.seeds) - 1)

\* core_matches - mismatches - indels, the value before it is stored in a
\* usize: a negative value is a subtraction that overflowed.
corelen(a) == core_matches(a) - a.mismatches - indels(a)

\* A wrapped usize; of a value that wrapped, the low 31 bits are kept.
as_usize(x) == IF x >= 0 THEN x ELSE (2147483647 + x) + 1

\* Standard::extend_anchors, which works on the last anchor of the list.
extend_anchors(best, q, ref) ==
    LET best_first == best.seeds[1]
        start == best_first.rpos + F \div 2
        end == start + C
        ref_seed == Slice(ref, start, end)
        seed_fwd == Slice(q, best_first.qpos, best_first.qpos + best_first.length)
    IN  IF ~slice_ok(ref, start, end) THEN [best EXCEPT !.panic = "slice index"]
        ELSE IF best.seed_count = 1 /\ ~best.orientation_set
        THEN [best EXCEPT !.forward = (ref_seed = seed_fwd)]
        ELSE best

----------------------------------------------------------------------------
Init ==
    /\ stage = "start"
    /\ query \in [1..ReadLen -> Bases]
    /\ reference \in [1..RefLen -> Bases]
    /\ seeds = <<>>
    /\ indices = <<>>
    /\ anchors = <<>>
    /\ pairs = <<>>
    /\ paf = NoLine
    /\ OutIdle
    /\ SeedIdle

\* kmer_extractor, range_extractor and seed_extractor generate.
GenerateSeeds ==
    /\ stage = "start"
    /\ \E positions \in SUBSET (0..(Len(query) - K)) :
        /\ positions # {}
        /\ Cardinality(positions) <= MaxKmers
        /\ seeds' = generate_seeds(query, reference, positions)
    /\ stage' = "seeds"
    /\ UNCHANGED <<query, reference, indices, anchors, pairs, paf, outvars, seedvars, groups>>

\* StdAnchorExtractor::generate and Standard::seeds_to_anchors: the group is
\* peeled into anchors.
Peel ==
    /\ stage = "seeds"
    /\ anchors' = group_into_anchor_module(seeds, [i \in 1..Len(seeds) |-> i],
                                           Len(query), <<>>)
    /\ stage' = IF anchors' = <<>> THEN "unmapped"
                ELSE IF Panicked(anchors'[Len(anchors')]) THEN "panic"
                ELSE "anchors"
    /\ UNCHANGED <<query, reference, seeds, indices, pairs, paf, outvars, seedvars, groups>>

\* The rest of Modular::run and Standard::run: sort_unstable_by_key leaves
\* any anchor of greatest key first and any other of greatest key among the
\* rest second; the line is written from the first.  A subtraction that
\* overflows panics in a build with overflow checks and wraps otherwise.
WriteSingleEnd ==
    /\ stage = "anchors"
    /\ \E workflow \in {"Standard", "Modular"}, wraps \in BOOLEAN,
          first \in 1..Len(anchors), second \in 0..Len(anchors) :
        LET others == (1..Len(anchors)) \ {first}
            best_corelen == corelen(anchors[first])
            second_best_corelen == IF second = 0 THEN 0 ELSE corelen(anchors[second])
            overflows ==
                \/ \E i \in 1..Len(anchors) : corelen(anchors[i]) < 0
                \/ best_corelen >= 0 /\ second_best_corelen < 0
            pseudo_mapq == best_corelen - second_best_corelen
            best == IF workflow = "Standard" /\ Len(anchors) = 1
                    THEN extend_anchors(anchors[first], query, reference)
                    ELSE anchors[first]
        IN  /\ \A i \in others : corelen(anchors[i]) <= best_corelen
            /\ (second = 0) = (others = {})
            /\ second # 0 =>
                /\ second \in others
                /\ \A i \in others : corelen(anchors[i]) <= second_best_corelen
            /\ ~overflows => wraps
            /\ IF ~wraps \/ Panicked(best)
               THEN stage' = "panic" /\ paf' = paf
               ELSE /\ stage' = "written"
                    /\ paf' = paf_line(workflow, best, query, reference, best.seed_count,
                                       IF workflow = "Modular" THEN as_u8(pseudo_mapq)
                                       ELSE as_usize(pseudo_mapq))
    /\ UNCHANGED <<query, reference, seeds, indices, anchors, pairs, outvars, seedvars, groups>>

\* StdPairedAnchorExtractor::generate: the group is peeled and its anchors
\* are paired with the anchor of the other mate.
PeelPaired ==
    /\ stage = "seeds"
    /\ anchors' = group_into_anchor_module(seeds, [i \in 1..Len(seeds) |-> i],
                                           Len(query), <<>>)
    /\ \E kind \in A2Kinds :
        pairs' = IF anchors' # <<>> /\ Panicked(anchors'[Len(anchors')]) THEN <<>>
                 ELSE pair_up(anchors', kind, Len(query))
    /\ stage' = IF anchors' = <<>> THEN "unmapped"
                ELSE IF Panicked(anchors'[Len(anchors')]) \/ any_panicked(pairs') THEN "panic"
                ELSE "pairs"
    /\ UNCHANGED <<query, reference, seeds, indices, paf, outvars, seedvars, groups>>

\* ModularPE::run keeps the first extend_top_x pairs, checks them, and the
\* sorter's first pass fixes the orientation of every anchor.
FixAnchors ==
    /\ stage = "pairs"
    /\ LET extension_anchors == SubSeq(pairs, 1, Min(extend_top_x, Len(pairs)))
       IN  pairs' = [i \in DOMAIN extension_anchors |->
                        fix_pair(extension_anchors[i], query, revcomp(query), reference)]
    /\ stage' = IF any_panicked(pairs') THEN "panic" ELSE "fixed"
    /\ UNCHANGED <<query, reference, seeds, indices, anchors, paf, outvars, seedvars, groups>>

\* The sorter's second pass (extension and scoring of the pairs whose two
\* orientations are set), its sort by the sum of the two scores, and the
\* check after the sorter.
ExtendAndSort ==
    /\ stage = "fixed"
    /\ LET refined == [i \in DOMAIN pairs |->
                          extend_pair(pairs[i], query, revcomp(query), reference)]
       IN  pairs' = IF any_panicked(refined) THEN refined
                    ELSE sort_by_key(refined,
                            [i \in DOMAIN refined |->
                                0 - (refined[i].a1.score + a2_sorter_score(refined[i]))])
    /\ stage' = IF any_panicked(pairs') THEN "panic" ELSE "sorted"
    /\ UNCHANGED <<query, reference, seeds, indices, anchors, paf, outvars, seedvars, groups>>

\* The alignment loop over the first align_top_y pairs.  The score ceiling
\* starts at the ANI abort score and is lowered after each anchor.
SmartAlign ==
    /\ stage = "sorted"
    /\ pairs' \in align_pairs(pairs, 1, ani_abort_score(MismatchPenalty, Len(query)),
                              query, revcomp(query), reference)
    /\ stage' = IF any_panicked(pairs') THEN "panic" ELSE "aligned"
    /\ UNCHANGED <<query, reference, seeds, indices, anchors, paf, outvars, seedvars, groups>>

\* The output of ModularPE::run for mate one: the first pair of the list is
\* reported, with the mapq of the list as it stands.
WritePE ==
    /\ stage = "aligned"
    /\ LET best == pairs[1].a1
           sq == strand(best, query, revcomp(query))
       IN  paf' = paf_line("ModularPE", best, query, reference,
                           Len(sq) - anchor_hamming(best, sq, reference),
                           anchor_mapq(pairs))
    /\ stage' = "written"
    /\ UNCHANGED <<query, reference, seeds, indices, anchors, pairs, outvars, seedvars, groups>>

Next ==
    \/ GenerateSeeds
    \/ Peel
    \/ WriteSingleEnd
    \/ PeelPaired
    \/ FixAnchors
    \/ ExtendAndSort
    \/ SmartAlign
    \/ WritePE

Spec == Init /\ [][Next]_vars

\* Every seed of every anchor lies inside the read and the reference, so no
\* slice taken over a seed's ranges is out of bounds.
SeedsInRange ==
    /\ \A i \in 1..Len(anchors) : \A j \in 1..Len(anchors[i].seeds) :
          qrange_ok(anchors[i].seeds[j], query) /\ rrange_ok(anchors[i].seeds[j], reference)
    /\ \A i \in 1..Len(pairs) : \A j \in 1..Len(pairs[i].a1.seeds) :
          qrange_ok(pairs[i].a1.seeds[j], query) /\ rrange_ok(pairs[i].a1.seeds[j], reference)

----------------------------------------------------------------------------
\* Longer reads over sparse sequences: the same handlers, started from
\* reads and references of LongLen bases of which at most MaxOnes are 1.

LongLen == 7
MaxOnes == 2

SparseSequences ==
    { x \in [1..LongLen -> Bases] : Cardinality({i \in 1..LongLen : x[i] = 1}) <= MaxOnes }

InitLong ==
    /\ stage = "start"
    /\ query \in SparseSequences
    /\ reference \in SparseSequences
    /\ seeds = <<>>
    /\ indices = <<>>
    /\ anchors = <<>>
    /\ pairs = <<>>
    /\ paf = NoLine
    /\ OutIdle
    /\ SeedIdle

SpecLong == InitLong /\ [][Next]_vars

----------------------------------------------------------------------------
\* Seeding of one read: the k-mer extractor, the range extractor and the
\* seed extractor with its options.

\* max_best_flex of the recovery pass (128 in the program).
RecoverFlex == 3
\* Number of productive ranges below which the recovery pass runs (4 in the
\* program).
min_ranges == 2
\* Start value of the minimal distance (u32::MAX in the program), above every
\* distance of two flanks.
DistMax == 2147483647

Cores == [1..C -> Bases]

\* The minimizer scheme is a predicate of the canonical core-mer alone.
is_minimizer(cmer) == cmer \in extractor.minimizers

\* StdKmerExtractor::generate from position pos on: the canonical k-mer of
\* every position whose smaller core-mer is a minimizer.
RECURSIVE kmer_generate(_, _)
kmer_generate(rec, pos) ==
    IF pos + K > Len(rec) THEN <<>>
    ELSE LET kmer_fwd == Slice(rec, pos, pos + K)
             kmer_rev == revcomp(kmer_fwd)
             cmer_fwd == middle(kmer_fwd)
             cmer_rev == middle(kmer_rev)
             kmer == canonical(kmer_fwd)
             cmer == IF SeqLess(cmer_rev, cmer_fwd) THEN cmer_rev ELSE cmer_fwd
         IN  (IF is_minimizer(cmer) THEN <<[pos |-> pos, kmer |-> kmer]>> ELSE <<>>)
                 \o kmer_generate(rec, pos + 1)

\* The occurrences stored under a core-mer: position and flank fingerprint
\* of every reference k-mer with that canonical core-mer.
db_get_vrange(ref, cmer) ==
    LET hits == SelectSeq([i \in 1..(Len(ref) - K + 1) |-> i - 1],
                          LAMBDA rpos : middle(canonical(Slice(ref, rpos, rpos + K))) = cmer)
    IN  [i \in 1..Len(hits) |->
            [rpos |-> hits[i], header |-> flanks(canonical(Slice(ref, hits[i], hits[i] + K)))]]

\* StdRangeExtractor::generate before the sort: one range per k-mer whose
\* core-mer is stored.
RECURSIVE range_generate(_, _, _)
range_generate(kms, i, ref) ==
    IF i > Len(kms) THEN <<>>
    ELSE LET range == db_get_vrange(ref, middle(kms[i].kmer))
         IN  (IF range = <<>> THEN <<>>
              ELSE <<[qpos |-> kms[i].pos, flex |-> flanks(kms[i].kmer), positions |-> range]>>)
                 \o range_generate(kms, i + 1, ref)

\* header.dist(flex) of every stored occurrence of the range.
header_dists(range) ==
    [i \in DOMAIN range.positions |-> hamming(range.positions[i].header, range.flex)]

\* The minimal distance with the number of all headers of the range.
min_dist_count_all(dists, i, min_dist, count) ==
    [min_dist |-> CHOOSE d \in {dists[k] : k \in DOMAIN dists} :
                      \A k \in DOMAIN dists : d <= dists[k],
     count |-> Len(dists)]

\* The first loop over the headers: the minimal distance and the number of
\* headers at that distance.
RECURSIVE min_dist_count(_, _, _, _)
min_dist_count(dists, i, min_dist, count) ==
    IF i > Len(dists) THEN [min_dist |-> min_dist, count |-> count]
    ELSE LET lower == dists[i] < min_dist
             m == IF lower THEN dists[i] ELSE min_dist
             c == IF lower THEN 0 ELSE count
         IN  min_dist_count(dists, i + 1, m, IF dists[i] = m THEN c + 1 ELSE c)

\* StdSeedExtractor::retrieve_seeds from range i on.  A seed is kept with the
\* range and the stored occurrence it comes from.
RECURSIVE retrieve_seeds_pass(_, _, _, _, _)
retrieve_seeds_pass(rgs, i, max_best_flex, max_ranges, st) ==
    IF i > Len(rgs) THEN st
    ELSE LET dists == header_dists(rgs[i])
             mc == min_dist_count(dists, 1, DistMax, 0)
             take == mc.count <= max_best_flex
             pushed == SelectSeq([idx \in DOMAIN dists |->
                                     [range |-> i, index |-> idx,
                                      seed |-> from_flexmer(rgs[i].qpos, rgs[i].positions[idx].rpos,
                                                            dists[idx])]],
                                 LAMBDA e : dists[e.index] = mc.min_dist)
             taken == [st EXCEPT !.seeds = @ \o pushed, !.matches = @ + 1,
                                 !.consumed = @ \cup {i}]
         IN  IF ~take
                THEN retrieve_seeds_pass(rgs, i + 1, max_best_flex, max_ranges,
                                         [st EXCEPT !.discarded = @ + 1, !.consumed = @ \cup {i}])
                ELSE IF taken.matches >= max_ranges THEN taken
                ELSE retrieve_seeds_pass(rgs, i + 1, max_best_flex, max_ranges, taken)

\* The state of a pass that starts on the seeds pushed so far.
pass_start(pushed) == [seeds |-> pushed, matches |-> 0, discarded |-> 0, consumed |-> {}]

\* StdSeedExtractor::generate: the pass with the configured max_best_flex,
\* the recovery pass if too few ranges were productive, and the sort.
seed_generate(rgs, max_best_flex, max_ranges) ==
    LET first == retrieve_seeds_pass(rgs, 1, max_best_flex, max_ranges, pass_start(<<>>))
        retry == first.matches < min_ranges /\ first.discarded > 0
        last == IF retry
                   THEN retrieve_seeds_pass(rgs, 1, RecoverFlex, max_ranges, pass_start(first.seeds))
                   ELSE first
    IN  [first |-> first, retried |-> retry, recovery |-> last,
         emitted |-> sort_by_key(last.seeds, [i \in DOMAIN last.seeds |-> last.seeds[i].seed.rpos])]

InitSeed ==
    /\ stage = "start"
    /\ query \in [1..ReadLen -> Bases]
    /\ reference \in [1..RefLen -> Bases]
    /\ seeds = <<>>
    /\ indices = <<>>
    /\ anchors = <<>>
    /\ pairs = <<>>
    /\ paf = [workflow |-> "none"]
    /\ OutIdle
    /\ kmers = <<>>
    /\ ranges = <<>>
    /\ groups = <<>>
    /\ extractor \in { [max_best_flex |-> b, max_ranges |-> r, minimizers |-> ms,
                         first |-> pass_start(<<>>), retried |-> FALSE,
                         recovery |-> pass_start(<<>>), emitted |-> <<>>] :
                          b \in {1, 2}, r \in {2, 3}, ms \in (SUBSET Cores) \ {{}} }

\* kmer_extractor.generate(rec)
ExtractKmers ==
    /\ stage = "start"
    /\ kmers' = kmer_generate(query, 0)
    /\ stage' = "kmers"
    /\ UNCHANGED <<query, reference, seeds, indices, anchors, pairs, paf, outvars, ranges, extractor, groups>>

\* sort_unstable_by_key by the number of occurrences: the sorted orders of
\* the list; ranges of equal size may come out in any order.
sort_unstable_by_key(list) ==
    LET n == Len(list)
        size == [i \in 1..n |-> Len(list[i].positions)]
        orders == { order \in [1..n -> 1..n] :
                      /\ \A i, j \in 1..n : i # j => order[i] # order[j]
                      /\ \A i \in 1..(n - 1) : size[order[i]] <= size[order[i + 1]] }
    IN  { [i \in 1..n |-> list[order[i]]] : order \in orders }

\* range_extractor.generate(kmers): the ranges, sorted by their number of
\* occurrences.
ExtractRanges ==
    /\ stage = "kmers"
    /\ ranges' \in sort_unstable_by_key(range_generate(kmers, 1, reference))
    /\ stage' = "ranges"
    /\ UNCHANGED <<query, reference, seeds, indices, anchors, pairs, paf, outvars, kmers, extractor, groups>>

\* seed_extractor.generate(ranges)
ExtractSeeds ==
    /\ stage = "ranges"
    /\ \E g \in {seed_generate(ranges, extractor.max_best_flex, extractor.max_ranges)} :
           /\ extractor' = [extractor EXCEPT !.first = g.first, !.retried = g.retried,
                                              !.recovery = g.recovery, !.emitted = g.emitted]
           /\ seeds' = [i \in DOMAIN g.emitted |-> g.emitted[i].seed]
    /\ stage' = "seeds"
    /\ UNCHANGED <<query, reference, indices, anchors, pairs, paf, outvars, kmers, ranges, groups>>

NextSeed ==
    \/ ExtractKmers
    \/ ExtractRanges
    \/ ExtractSeeds

SpecSeed == InitSeed /\ [][NextSeed]_vars

----------------------------------------------------------------------------
\* Single-end anchor extraction over the seeds of several references: the
\* seeds arrive sorted by (rval, rpos), are cut into reference groups, and
\* the groups that are selected are peeled.

\* Seeds handed to the anchor extractor and references they lie on.
MaxGroupSeeds == 6
MaxRefs == 3
\* Number of groups looked at (8 in the program), margin below the size of
\* the largest group (10) and cap of that size (32).
TopGroups == 2
SkipMargin == 1
SizeCap == 3

\* seed_group_indices_module from seed i on (0-based): the maximal runs of
\* equal rval as [start, end) and the size of the largest.
RECURSIVE group_scan(_, _, _, _, _)
group_scan(sds, i, last_idx, acc, max_size) ==
    IF i >= Len(sds)
       THEN [groups |-> Append(acc, [start |-> last_idx, end |-> Len(sds)]),
             max_size |-> Max(max_size, Len(sds) - last_idx)]
    ELSE IF sds[i].rval # sds[i + 1].rval
       THEN group_scan(sds, i + 1, i, Append(acc, [start |-> last_idx, end |-> i]),
                       Max(max_size, i - last_idx))
    ELSE group_scan(sds, i + 1, last_idx, acc, max_size)

seed_group_indices_module(sds) == group_scan(sds, 1, 0, <<>>, 0)

\* The threshold below which a group is skipped.
skip_threshold(max_size) == Min(max_size, SizeCap) - SkipMargin

\* The loop over the first groups of the sorted list: a group that is not
\* skipped is peeled, its anchors carry the rval of the group.
RECURSIVE peel_groups(_, _, _, _, _)
peel_groups(sds, sorted, i, threshold, acc) ==
    IF i > Min(TopGroups, Len(sorted)) \/ (acc # <<>> /\ Panicked(acc[Len(acc)].anchor))
       THEN acc
    ELSE IF sorted[i].end - sorted[i].start < threshold
       THEN peel_groups(sds, sorted, i + 1, threshold, acc)
    ELSE LET peeled == group_into_anchor_module(
                           sds, [k \in 1..(sorted[i].end - sorted[i].start) |-> sorted[i].start + k],
                           ReadLen, <<>>)
         IN  peel_groups(sds, sorted, i + 1, threshold,
                         acc \o [k \in 1..Len(peeled) |->
                                    [reference |-> sds[sorted[i].start + 1].rval,
                                     anchor |-> peeled[k]]])

\* Seeds of full length on the main diagonal of a reference.
GroupSeedDomain ==
    { [rval |-> v, qpos |-> q, rpos |-> q, length |-> K, mismatch |-> 0] :
        v \in 1..MaxRefs, q \in 0..(ReadLen - K) }

InitGroups ==
    /\ stage = "collect"
    /\ seeds = <<>>
    /\ indices = <<>>
    /\ anchors = <<>>
    /\ query = <<>>
    /\ reference = <<>>
    /\ pairs = <<>>
    /\ paf = [workflow |-> "none"]
    /\ OutIdle
    /\ SeedIdle

\* One more seed of the seed extractor's list, in the order of its sort by
\* (rval, rpos).
CollectSorted ==
    /\ stage = "collect"
    /\ Len(seeds) < MaxGroupSeeds
    /\ \E s \in GroupSeedDomain :
        /\ seeds # <<>> =>
              \/ seeds[Len(seeds)].rval < s.rval
              \/ seeds[Len(seeds)].rval = s.rval /\ seeds[Len(seeds)].rpos <= s.rpos
        /\ seeds' = Append(seeds, s)
    /\ UNCHANGED <<stage, query, reference, indices, anchors, pairs, paf, outvars, seedvars>>

\* StdAnchorExtractor::generate: the groups are sorted by descending size
\* (stable), and the first of them that reach the threshold are peeled.
ExtractAnchors ==
    /\ stage = "collect"
    /\ \E g \in {seed_group_indices_module(seeds)} :
         \E sorted \in {sort_by_key(g.groups, [i \in DOMAIN g.groups |->
                                                 0 - (g.groups[i].end - g.groups[i].start)])} :
           /\ groups' = sorted
           /\ anchors' = peel_groups(seeds, sorted, 1, skip_threshold(g.max_size), <<>>)
    /\ stage' = IF anchors' # <<>> /\ Panicked(anchors'[Len(anchors')].anchor) THEN "panic"
                ELSE "anchors"
    /\ UNCHANGED <<query, reference, seeds, indices, pairs, paf, outvars, kmers, ranges, extractor>>

NextGroups == CollectSorted \/ ExtractAnchors

SpecGroups == InitGroups /\ [][NextGroups]_vars

----------------------------------------------------------------------------
\* Output of a paired input file.  Every worker thread runs its own clone of
\* the worker closure, and so of the handlers and of their OutputBuffers, on
\* the pairs the reader hands out; all buffers share one output target
\* behind a mutex.

alignvars == <<stage, query, reference, seeds, indices, anchors, pairs, paf>>

\* Worker threads and pairs of the input file.
Workers == 2
NPairs == 3
\* Bytes of a PAF line; the last one is the newline.
LineLen == 2
\* Buffer size above which a write flushes (2^24 in the program).
Threshold == 2

Mates == {1, 2}

\* StdPAFOutput::write formats the line of mate m of pair p as one String.
line_bytes(p, m) == [k \in 1..LineLen |-> [pair |-> p, mate |-> m, k |-> k]]

\* The handlers of the worker closure: handler_fwd and handler_rev of the
\* per-mate workflow, each with its own buffer, or the one paired handler.
Handlers == IF input.workflow = "ModularPE" THEN {1} ELSE Mates
handler_of(m) == IF input.workflow = "ModularPE" THEN 1 ELSE m

\* A lock that never waits.
lock_unguarded(w) == TRUE

\* Mutex::lock returns once no other thread holds the guard.
try_lock(w) == writer = 0

InitOut ==
    /\ stage = "output"
    /\ query = <<>>
    /\ reference = <<>>
    /\ seeds = <<>>
    /\ indices = <<>>
    /\ anchors = <<>>
    /\ pairs = <<>>
    /\ paf = [workflow |-> "none"]
    /\ sink = <<>>
    /\ writer = 0
    /\ buffer = [w \in 1..Workers |-> [h \in Mates |-> <<>>]]
    /\ thread = [w \in 1..Workers |->
                    [pc |-> "idle", pair |-> 0, h |-> 0, n |-> 0, ret |-> "idle", dropped |-> {}]]
    /\ input \in {[workflow |-> wf, next |-> 1] : wf \in {"Standard", "ModularPE"}}
    /\ lines = {}
    /\ SeedIdle

\* The reader hands the next pair to a free worker.
TakePair ==
    \E w \in 1..Workers :
        /\ thread[w].pc = "idle"
        /\ input.next <= NPairs
        /\ thread' = [thread EXCEPT ![w].pc = "fwd", ![w].pair = input.next]
        /\ input' = [input EXCEPT !.next = input.next + 1]
        /\ UNCHANGED <<alignvars, seedvars, sink, writer, buffer, lines>>

\* OutputBuffer::write up to the lock: the line is appended to the buffer,
\* and a buffer longer than the threshold is flushed before the return.
OutputBuffer_write(w, h, str, ret) ==
    LET buf == buffer[w][h] \o str
    IN  /\ buffer' = [buffer EXCEPT ![w][h] = buf]
        /\ thread' = IF Len(buf) > Threshold
                         THEN [thread EXCEPT ![w].pc = "lock", ![w].h = h, ![w].n = 0, ![w].ret = ret]
                         ELSE [thread EXCEPT ![w].pc = ret]

\* The handler of one mate runs on its record: a mapped record yields one
\* PAF line, an unmapped record none.  The forward record comes first.
RunMate ==
    \E w \in 1..Workers, mapped \in BOOLEAN :
        /\ thread[w].pc \in {"fwd", "rev"}
        /\ LET m == IF thread[w].pc = "fwd" THEN 1 ELSE 2
               ret == IF m = 1 THEN "rev" ELSE "idle"
           IN  IF mapped
                  THEN /\ OutputBuffer_write(w, handler_of(m), line_bytes(thread[w].pair, m), ret)
                       /\ lines' = lines \cup {<<thread[w].pair, m>>}
                  ELSE /\ thread' = [thread EXCEPT ![w].pc = ret]
                       /\ UNCHANGED <<buffer, lines>>
        /\ UNCHANGED <<alignvars, seedvars, sink, writer, input>>

\* self.writer.lock()
LockWriter ==
    \E w \in 1..Workers :
        /\ thread[w].pc = "lock"
        /\ try_lock(w)
        /\ writer' = w
        /\ thread' = [thread EXCEPT ![w].pc =
                          IF Len(buffer[w][thread[w].h]) = 0 THEN "unlock" ELSE "write_all"]
        /\ UNCHANGED <<alignvars, seedvars, sink, buffer, input, lines>>

\* write_all: one write call of the loop, which accepts some of the bytes
\* that are left.
WriteChunk ==
    \E w \in 1..Workers :
        /\ thread[w].pc = "write_all"
        /\ LET buf == buffer[w][thread[w].h]
               n == thread[w].n
           IN  \E c \in 1..(Len(buf) - n) :
                   /\ sink' = sink \o SubSeq(buf, n + 1, n + c)
                   /\ thread' = [thread EXCEPT ![w].n = n + c,
                                               ![w].pc = IF n + c = Len(buf) THEN "unlock"
                                                                             ELSE "write_all"]
        /\ UNCHANGED <<alignvars, seedvars, writer, buffer, input, lines>>

\* The buffer is cleared (after a flush) or gone (after a drop) and the
\* guard is released.
Unlock ==
    \E w \in 1..Workers :
        /\ thread[w].pc = "unlock"
        /\ buffer' = [buffer EXCEPT ![w][thread[w].h] = <<>>]
        /\ writer' = 0
        /\ thread' = [thread EXCEPT ![w].pc = thread[w].ret, ![w].n = 0]
        /\ UNCHANGED <<alignvars, seedvars, sink, input, lines>>

\* The input is exhausted and the closure is dropped: Drop of each of its
\* OutputBuffers writes the buffer out, in an order the language leaves open.
DropBuffer ==
    \E w \in 1..Workers :
        /\ thread[w].pc = "idle"
        /\ input.next > NPairs
        /\ \E h \in Handlers \ thread[w].dropped :
              thread' = [thread EXCEPT ![w].pc = "lock", ![w].h = h, ![w].n = 0,
                                       ![w].dropped = thread[w].dropped \cup {h},
                                       ![w].ret = IF thread[w].dropped \cup {h} = Handlers
                                                     THEN "done" ELSE "idle"]
        /\ UNCHANGED <<alignvars, seedvars, sink, writer, buffer, input, lines>>

NextOut ==
    \/ TakePair
    \/ RunMate
    \/ LockWriter
    \/ WriteChunk
    \/ Unlock
    \/ DropBuffer

SpecOut == InitOut /\ [][NextOut]_vars

----------------------------------------------------------------------------
\* Paired anchor extraction (StdPairedAnchorExtractor::generate) over the
\* seed lists of the two mates.  `seeds` holds the pair <<seeds_fwd,
\* seeds_rev>>, `groups` the sorted list of SeedGroupPaired and `pairs` the
\* AnchorPairs returned; an Option<Anchor> is a sequence of length 0 or 1.

\* Length of either mate, references, seeds of the two mates together and
\* bases of a reference in this specification.
PairReadLen == 4
PairRefs == 2
MaxPairSeeds == 4
PairRefLen == 12

\* The insert size compared against (1000 in the program).
InsertMax == 1

\* The test of the insert size in the enumeration of generate.
insert_ok(is) == is < InsertMax

seed_group_indices_paired_module(sds, forward) ==
    IF sds = <<>> THEN <<>>
    ELSE LET g == group_scan(sds, 1, 0, <<>>, 0).groups
         IN  [i \in DOMAIN g |->
                 [reference |-> sds[g[i].start + 1].rval,
                  start |-> g[i].start,
                  size |-> g[i].end - g[i].start,
                  forward |-> forward]]

\* Anchor::reference_pos.
reference_pos(a, read_length) ==
    LET seed == a.seeds[1]
        start == seed.rpos - seed.qpos
    IN  <<start, start + read_length>>

insert_size(a_fwd, a_rev, read_length_fwd, read_length_rev) ==
    LET span_fwd == reference_pos(a_fwd, read_length_fwd)
        span_rev == reference_pos(a_rev, read_length_rev)
    IN  IF span_fwd[1] < span_rev[1] THEN span_rev[1] - span_fwd[2]
        ELSE span_fwd[1] - span_rev[2]

\* AnchorPair::resolve_orientation on a pair of two anchors.
AnchorPair_resolve_orientation(p, read_length_fwd, read_length_rev) ==
    LET unset(o) == o # <<>> /\ ~o[1].orientation_set
        isset(o) == o # <<>> /\ o[1].orientation_set
        p1 == IF unset(p.fwd) /\ isset(p.rev)
              THEN [p EXCEPT !.fwd = <<set_forward(p.fwd[1], ~p.rev[1].forward,
                                                   read_length_fwd)>>]
              ELSE p
    IN  IF p1.fwd # <<>> /\ Panicked(p1.fwd[1]) THEN p1
        ELSE IF unset(p1.rev) /\ isset(p1.fwd)
        THEN [p1 EXCEPT !.rev = <<set_forward(p1.rev[1], ~p1.fwd[1].forward,
                                              read_length_rev)>>]
        ELSE p1

pair_panicked(p) ==
    \/ p.fwd # <<>> /\ Panicked(p.fwd[1])
    \/ p.rev # <<>> /\ Panicked(p.rev[1])

\* The peeled anchors of the seeds of one SeedGroupPaired.
peel_group(sds, g, read_length) ==
    group_into_anchor_module(sds, [k \in 1..g.size |-> g.start + k], read_length, <<>>)

peel_panicked(list) == list # <<>> /\ Panicked(list[Len(list)])

\* The two nested loops over anchors_fwd and anchors_rev from (i, j) on.
RECURSIVE enumerate_pairs(_, _, _, _, _, _, _, _)
enumerate_pairs(reference_id, anchors_fwd, anchors_rev, i, j, read_length_fwd, read_length_rev, acc) ==
    IF i > Len(anchors_fwd) \/ (acc # <<>> /\ pair_panicked(acc[Len(acc)])) THEN acc
    ELSE IF j > Len(anchors_rev)
    THEN enumerate_pairs(reference_id, anchors_fwd, anchors_rev, i + 1, 1,
                         read_length_fwd, read_length_rev, acc)
    ELSE LET is == insert_size(anchors_fwd[i], anchors_rev[j], read_length_fwd,
                               read_length_rev)
             p == [reference |-> reference_id, fwd |-> <<anchors_fwd[i]>>,
                   rev |-> <<anchors_rev[j]>>]
         IN  enumerate_pairs(reference_id, anchors_fwd, anchors_rev, i, j + 1,
                             read_length_fwd, read_length_rev,
                             IF insert_ok(is)
                             THEN Append(acc, AnchorPair_resolve_orientation(
                                                  p, read_length_fwd, read_length_rev))
                             ELSE acc)

\* Anchors popped from the back of the list of a group that stands alone.
unpaired_pairs(reference_id, list, forward) ==
    [k \in 1..Len(list) |->
        IF forward
        THEN [reference |-> reference_id, fwd |-> <<list[Len(list) + 1 - k]>>, rev |-> <<>>]
        ELSE [reference |-> reference_id, fwd |-> <<>>, rev |-> <<list[Len(list) + 1 - k]>>]]

\* The enumeration ends early when set_forward's assertion fails.
checked_pairs(out) ==
    IF out # <<>> /\ pair_panicked(out[Len(out)])
    THEN [anchors |-> out, panic |-> "assert one seed", advance |-> 2]
    ELSE [anchors |-> out, panic |-> "", advance |-> 2]

\* The key of the last sort of generate.
pair_score(p) ==
    (IF p.fwd = <<>> THEN 0 ELSE anchor_score(p.fwd[1]))
    + (IF p.rev = <<>> THEN 0 ELSE anchor_score(p.rev[1]))

\* The branch of generate for two groups of one reference, given their
\* peeled anchors: the list self.anchors after it and the message of a panic.
pair_both(reference_id, anchors_fwd, anchors_rev, read_length_fwd, read_length_rev, acc) ==
    IF peel_panicked(anchors_rev)
    THEN [anchors |-> acc, panic |-> anchors_rev[Len(anchors_rev)].panic, advance |-> 2]
    ELSE IF peel_panicked(anchors_fwd)
    THEN [anchors |-> acc, panic |-> anchors_fwd[Len(anchors_fwd)].panic, advance |-> 2]
    ELSE IF Len(anchors_fwd) <= 1 /\ Len(anchors_rev) <= 1
    THEN [anchors |-> Append(acc, [reference |-> reference_id,
                                   fwd |-> anchors_fwd, rev |-> anchors_rev]),
          panic |-> "", advance |-> 2]
    ELSE checked_pairs(enumerate_pairs(reference_id, anchors_fwd, anchors_rev, 1, 1,
                                       read_length_fwd, read_length_rev, acc))

\* The branches of generate for a group that stands alone, given its peeled
\* anchors.
pair_single(reference_id, list, forward, acc) ==
    IF peel_panicked(list)
    THEN [anchors |-> acc, panic |-> list[Len(list)].panic, advance |-> 1]
    ELSE [anchors |-> acc \o unpaired_pairs(reference_id, list, forward),
          panic |-> "", advance |-> 1]

\* One iteration of the while loop of generate over the sorted groups.
group_step(seeds_fwd, seeds_rev, current, next, read_length_fwd, read_length_rev, acc) ==
    IF current.reference = next.reference
    THEN IF current.forward \/ ~next.forward
         THEN [anchors |-> acc, panic |-> "assertion failed", advance |-> 2]
         ELSE pair_both(current.reference,
                        peel_group(seeds_fwd, next, read_length_fwd),
                        peel_group(seeds_rev, current, read_length_rev),
                        read_length_fwd, read_length_rev, acc)
    ELSE IF current.forward
    THEN pair_single(current.reference, peel_group(seeds_fwd, current, read_length_fwd),
                     TRUE, acc)
    ELSE pair_single(current.reference, peel_group(seeds_rev, current, read_length_rev),
                     FALSE, acc)

\* The while loop of generate; current_idx counts from 0.  The result is the
\* list self.anchors and the message of a panic.
RECURSIVE pair_groups(_, _, _, _, _, _, _)
RECURSIVE pair_groups_from(_, _, _, _, _, _, _)
pair_groups_from(seeds_fwd, seeds_rev, gs, current_idx, read_length_fwd, read_length_rev, r) ==
    IF r.panic # "" THEN [anchors |-> r.anchors, panic |-> r.panic]
    ELSE pair_groups(seeds_fwd, seeds_rev, gs, current_idx + r.advance,
                     read_length_fwd, read_length_rev, r.anchors)

pair_groups(seeds_fwd, seeds_rev, gs, current_idx, read_length_fwd, read_length_rev, acc) ==
    IF ~(current_idx < Len(gs) - 1) THEN [anchors |-> acc, panic |-> ""]
    ELSE pair_groups_from(seeds_fwd, seeds_rev, gs, current_idx, read_length_fwd,
                          read_length_rev,
                          group_step(seeds_fwd, seeds_rev, gs[current_idx + 1],
                                     gs[current_idx + 2], read_length_fwd,
                                     read_length_rev, acc))

\* The list self.anchors sorted by the key of the last sort of generate.
sorted_pairs(out) ==
    IF out.panic # "" THEN out
    ELSE [out EXCEPT !.anchors =
             sort_by_key(out.anchors,
                         [i \in DOMAIN out.anchors |-> 0 - pair_score(out.anchors[i])])]

\* The sorted groups of the two seed lists.
paired_groups(seeds_fwd, seeds_rev) ==
    LET gs == seed_group_indices_paired_module(seeds_fwd, TRUE)
              \o seed_group_indices_paired_module(seeds_rev, FALSE)
    IN  sort_by_key(gs, [i \in DOMAIN gs |->
                            2 * gs[i].reference + (IF gs[i].forward THEN 1 ELSE 0)])

paired_generate(seeds_fwd, seeds_rev, gs, read_length_fwd, read_length_rev) ==
    IF gs = <<>> THEN [anchors |-> <<>>, panic |-> ""]
    ELSE sorted_pairs(pair_groups(seeds_fwd, seeds_rev, gs, 0, read_length_fwd,
                                  read_length_rev, <<>>))

\* Seeds of K bases of a mate that lies at least a read length into the
\* reference.
PairSeedDomain ==
    { [rval |-> v, qpos |-> q, rpos |-> r, length |-> K, mismatch |-> 0] :
        v \in 1..PairRefs, q \in 0..(PairReadLen - K),
        r \in PairReadLen..(PairRefLen - K) }

InitPairs ==
    /\ stage = "collect"
    /\ seeds = <<<<>>, <<>>>>
    /\ indices = <<>>
    /\ anchors = <<>>
    /\ query = <<>>
    /\ reference = <<>>
    /\ pairs = <<>>
    /\ paf = [workflow |-> "none"]
    /\ OutIdle
    /\ SeedIdle

\* One more seed of the list of mate m, in the order of the seed
\* extractor's sort by (rval, rpos).
CollectMate(m) ==
    /\ stage = "collect"
    /\ Len(seeds[1]) + Len(seeds[2]) < MaxPairSeeds
    /\ \E s \in PairSeedDomain :
        /\ seeds[m] # <<>> =>
              \/ seeds[m][Len(seeds[m])].rval < s.rval
              \/ seeds[m][Len(seeds[m])].rval = s.rval /\ seeds[m][Len(seeds[m])].rpos <= s.rpos
        /\ seeds' = [seeds EXCEPT ![m] = Append(seeds[m], s)]
    /\ UNCHANGED <<stage, query, reference, indices, anchors, pairs, paf, outvars, seedvars>>

\* StdPairedAnchorExtractor::generate.
ExtractPairs ==
    /\ stage = "collect"
    /\ \E gs \in {paired_groups(seeds[1], seeds[2])} :
         \E out \in {paired_generate(seeds[1], seeds[2], gs, PairReadLen, PairReadLen)} :
           /\ groups' = gs
           /\ pairs' = out.anchors
           /\ stage' = IF out.panic # "" THEN "panic" ELSE "pairs"
    /\ UNCHANGED <<query, reference, seeds, indices, anchors, paf, outvars, kmers, ranges,
                   extractor>>

NextPairs == (\E m \in Mates : CollectMate(m)) \/ ExtractPairs

SpecPairs == InitPairs /\ [][NextPairs]_vars

----------------------------------------------------------------------------
\* Properties of the refinement, the alignment and the output.

\* The anchor's resolved strand of the read.
resolved(a) == strand(a, query, revcomp(query))

\* C1: after fix_anchor and extend_seeds, every AnchorSeed of the anchor
\* covers equal bases of the anchor's resolved strand of the read (over the
\* seed's qrange) and of the reference (over the seed's rrange).
C1_ExtendedSeedsMatch ==
    \A i \in 1..Len(pairs) :
        pairs[i].extended =>
            /\ \A j \in 1..Len(pairs[i].a1.seeds) :
                   /\ qrange_ok(pairs[i].a1.seeds[j], query)
                   /\ rrange_ok(pairs[i].a1.seeds[j], reference)
            /\ are_all_seeds_valid(pairs[i].a1, resolved(pairs[i].a1), reference)

\* An anchor on the reverse strand whose one seed was extended beyond a
\* k-mer.
C1_Witness ==
    /\ stage = "sorted"
    /\ \E i \in 1..Len(pairs) :
        /\ pairs[i].extended
        /\ ~pairs[i].a1.forward
        /\ Len(pairs[i].a1.seeds) = 1
        /\ pairs[i].a1.seeds[1].length > K

\* C3: when the adjacent AnchorSeeds of every anchor that the sorter
\* extends satisfy a.qend <= b.qbegin and a.rend <= b.rbegin before
\* extend_seeds, none of the sorter's order checks on an extended anchor
\* panics, and the seeds of every extended anchor that the sorter returns
\* are still ascending and non-overlapping.
C3_ExtensionKeepsOrder ==
    [][(/\ stage = "fixed"
        /\ \A i \in 1..Len(pairs) : ~gated(pairs[i]) => SeedsNonOverlapping(pairs[i].a1))
       => \A i \in 1..Len(pairs') :
            pairs'[i].extended =>
                /\ pairs'[i].a1.panic \notin {"adjacent seeds overlap", "B", "T"}
                /\ pairs'[i].a1.panic = "" =>
                       SeedsNonOverlapping(pairs'[i].a1) /\ SeedsAscending(pairs'[i].a1)]_vars

\* An extended anchor that kept two AnchorSeeds, one of them grown by the
\* extension.
C3_Witness ==
    /\ stage = "sorted"
    /\ \E i \in 1..Len(pairs) :
        /\ pairs[i].extended
        /\ Len(pairs[i].a1.seeds) >= 2
        /\ core_matches(pairs[i].a1) > 2 * C

\* Bases of the query and of the reference that a CIGAR consumes.
cigar_query_len(cigar) ==
    Cardinality({i \in 1..Len(cigar) : cigar[i] \in {"M", "X", "D", "S"}})

cigar_reference_len(cigar) ==
    Cardinality({i \in 1..Len(cigar) : cigar[i] \in {"M", "X", "I"}})

\* C4: the CIGAR of every anchor for which smart_align returned OK consumes
\* the whole read (soft-clipped ends included) and exactly the reference
\* bases of reference_cigar_range.
C4_CigarConsistent ==
    \A i \in 1..Len(pairs) :
        pairs[i].status = "OK" =>
            /\ cigar_query_len(pairs[i].a1.cigar) = Len(query)
            /\ cigar_reference_len(pairs[i].a1.cigar)
                 = pairs[i].a1.reference_cigar_range.end
                     - pairs[i].a1.reference_cigar_range.start

\* The read, on the anchor's strand, equals the reference on the anchor's
\* diagonal over its whole length.
exact_match(a) ==
    LET sq == resolved(a)
        o == a.seeds[1].rpos - a.seeds[1].qpos
    IN  /\ 0 <= o
        /\ o + Len(sq) <= Len(reference)
        /\ Slice(reference, o, o + Len(sq)) = sq

C6_PafBounds ==
    paf.workflow # "none" =>
        /\ paf.qend - paf.qstart <= paf.qlen
        /\ paf.rend - paf.rstart <= paf.rlen
        /\ paf.qstart >= 0
        /\ paf.rstart >= 0

\* A line on the reverse strand whose anchor has several AnchorSeeds.
C6_Witness ==
    /\ paf.workflow = "Modular"
    /\ ~paf.forward
    /\ paf.matches >= 2
    /\ paf.qend = paf.qlen

\* The score that smart_align leaves on the anchor of mate one; the other
\* mate aligns without penalty.
post_alignment_score(p) == p.a1.score

\* C7: the mapq written for a list of at least two pairs is the difference
\* of the two highest combined post-alignment scores, clamped to 0..255.
C7_MapqClamped ==
    LET clamp(x) == IF x < 0 THEN 0 ELSE IF x > 255 THEN 255 ELSE x
    IN  (paf.workflow = "ModularPE" /\ Len(pairs) >= 2) =>
            \E b \in 1..Len(pairs) : \E s \in (1..Len(pairs)) \ {b} :
                /\ \A j \in 1..Len(pairs) :
                       post_alignment_score(pairs[j]) <= post_alignment_score(pairs[b])
                /\ \A j \in (1..Len(pairs)) \ {b} :
                       post_alignment_score(pairs[j]) <= post_alignment_score(pairs[s])
                /\ paf.mapq = clamp(post_alignment_score(pairs[b])
                                    - post_alignment_score(pairs[s]))

\* C8: a record with exactly one candidate anchor or anchor pair is written
\* with mapq 0, whatever the workflow.
C8_SingleCandidateMapqZero ==
    (paf.workflow # "none" /\ Len(anchors) = 1) => paf.mapq = 0

\* C9: the pair reported in the PAF output is never one whose alignment was
\* Dropped while another candidate aligned OK.
C9_DroppedNeverReported ==
    paf.workflow = "ModularPE" =>
        ~(pairs[1].status = "Dropped" /\ \E j \in 1..Len(pairs) : pairs[j].status = "OK")

\* C10: no record makes the worker panic because orientation fixing finds
\* no matching configuration for an anchor or because align_middle reports
\* an AlignmentError.
C10_NoAbortOnRecordError ==
    ~(/\ stage = "panic"
      /\ \E i \in 1..Len(pairs) :
            pairs[i].a1.panic \in {"Nothing correct?", "assert are_all_seeds_valid",
                                   "Non recoverable error"})

\* The read, on the anchor's strand, lies n bases before the reference start
\* and its remaining bases equal the reference from position 0.
overhangs_start(a, n) ==
    LET sq == resolved(a)
    IN  /\ a.seeds[1].rpos - a.seeds[1].qpos = 0 - n
        /\ Len(sq) - n <= Len(reference)
        /\ Slice(sq, n, Len(sq)) = Slice(reference, 0, Len(sq) - n)

\* C11: the line written for a read whose first n bases (n <= free_ends) lie
\* before the reference start and whose other bases match from position 0
\* has rstart 0 and qstart 0, and the anchor's CIGAR is n soft-clips
\* followed by matches.
C11_DovetailOverhang ==
    \A n \in 1..FreeEnds :
        (/\ paf.workflow = "ModularPE"
         /\ pairs[1].status = "OK"
         /\ overhangs_start(pairs[1].a1, n))
        => /\ paf.rstart = 0
           /\ paf.qstart = 0
           /\ pairs[1].a1.cigar = Repeat("S", n) \o Repeat("M", Len(query) - n)

\* C12: within a pair, the forward record's PAF line precedes the reverse
\* record's PAF line in the output sink, for every interleaving of workers
\* and of buffer flushes, in the paired and in the per-mate workflow.
C12_ForwardBeforeReverse ==
    \A i, j \in 1..Len(sink) :
        (sink[i].pair = sink[j].pair /\ sink[i].mate = 1 /\ sink[j].mate = 2) => i < j

\* The line has left its buffer: the buffer was flushed or dropped.
flushed(l) ==
    \A w \in 1..Workers, h \in Mates :
        \A i \in 1..Len(buffer[w][h]) :
            <<buffer[w][h][i].pair, buffer[w][h][i].mate>> # l

\* C13: every PAF line passed to OutputBuffer::write appears in the sink,
\* once its buffer has been flushed or dropped, as one contiguous complete
\* line, with no byte of another buffer's output inside it.
C13_LinesContiguous ==
    \A l \in lines :
        flushed(l) =>
            \E i \in 1..(Len(sink) - LineLen + 1) :
                SubSeq(sink, i, i + LineLen - 1) = line_bytes(l[1], l[2])

\* A line has been flushed while one worker was in the middle of write_all
\* and another one was waiting for the lock.
C13_Witness ==
    /\ \E l \in lines : flushed(l)
    /\ \E w, v \in 1..Workers :
          /\ thread[w].pc = "write_all"
          /\ thread[w].n > 0
          /\ thread[v].pc = "lock"

\* The k-mers of the reverse complement of the read, each at the position
\* its occurrence has on the read (p becomes L - K - p).
mirrored_kmers(rec) ==
    LET rc == kmer_generate(revcomp(rec), 0)
    IN  { [pos |-> Len(rec) - K - rc[i].pos, kmer |-> rc[i].kmer] : i \in 1..Len(rc) }

\* C14: the k-mer extractor emits for the reverse complement of a read the
\* same canonical k-mers as for the read, at mirrored positions, and the
\* canonical k-mer is the forward k-mer if its core-mer is smaller than the
\* core-mer of the reverse k-mer, and the reverse k-mer otherwise.
C14_CanonicalStrandIndependent ==
    stage = "kmers" =>
        /\ {kmers[i] : i \in 1..Len(kmers)} = mirrored_kmers(query)
        /\ \A i \in 1..Len(kmers) :
              LET fwd == Slice(query, kmers[i].pos, kmers[i].pos + K)
                  rev == revcomp(fwd)
              IN  kmers[i].kmer = IF SeqLess(middle(fwd), middle(rev)) THEN fwd ELSE rev

\* Some k-mer is kept in its forward and another in its reverse orientation.
C14_Witness ==
    /\ stage = "kmers"
    /\ \E i, j \in 1..Len(kmers) :
          /\ kmers[i].kmer = Slice(query, kmers[i].pos, kmers[i].pos + K)
          /\ kmers[j].kmer # Slice(query, kmers[j].pos, kmers[j].pos + K)

\* d*: the least Hamming distance of a stored fingerprint of the range to
\* the flank of the query k-mer.
d_star(range) ==
    LET ds == {hamming(range.positions[idx].header, range.flex) : idx \in DOMAIN range.positions}
    IN  CHOOSE d \in ds : \A e \in ds : d <= e

\* The stored occurrences of the range at distance d.
at_dist(range, d) ==
    {idx \in DOMAIN range.positions : hamming(range.positions[idx].header, range.flex) = d}

\* n*: the number of stored fingerprints at distance d*.
n_star(range) == Cardinality(at_dist(range, d_star(range)))

\* The seeds a pass pushed for stored occurrence idx of range i.
pushed_for(pass, i, idx) ==
    {k \in DOMAIN pass.seeds : pass.seeds[k].range = i /\ pass.seeds[k].index = idx}

\* C15: a range consumed by a pass of retrieve_seeds with n* > max_best_flex
\* emits no seed and is counted as discarded; any other consumed range emits
\* exactly one seed per stored position at distance d* and none for the
\* other positions, with mismatch d*, of length K at (qpos, rpos) if d* = 0
\* and of length C at (qpos + F/2, rpos + F/2) if d* > 0.
C15_BestFlexSeeds ==
    stage = "seeds" =>
        LET pass == extractor.first
        IN  /\ pass.discarded =
                  Cardinality({i \in pass.consumed : n_star(ranges[i]) > extractor.max_best_flex})
            /\ \A i \in pass.consumed :
                  LET d == d_star(ranges[i])
                      best == at_dist(ranges[i], d)
                      qpos == ranges[i].qpos
                  IN  \A idx \in DOMAIN ranges[i].positions :
                          IF Cardinality(best) > extractor.max_best_flex \/ idx \notin best
                             THEN pushed_for(pass, i, idx) = {}
                             ELSE /\ Cardinality(pushed_for(pass, i, idx)) = 1
                                  /\ \A k \in pushed_for(pass, i, idx) :
                                        pass.seeds[k].seed =
                                            IF d = 0
                                               THEN [qpos |-> qpos,
                                                     rpos |-> ranges[i].positions[idx].rpos,
                                                     mismatch |-> 0, length |-> K]
                                               ELSE [qpos |-> qpos + F \div 2,
                                                     rpos |-> ranges[i].positions[idx].rpos + F \div 2,
                                                     mismatch |-> d, length |-> C]

\* The pass discarded one range, took a range with an exact occurrence and a
\* range whose best occurrences differ in the flank, and left stored
\* occurrences of a taken range without a seed.
C15_Witness ==
    /\ stage = "seeds"
    /\ \E i, j, l \in extractor.first.consumed :
          /\ n_star(ranges[i]) > extractor.max_best_flex
          /\ n_star(ranges[j]) <= extractor.max_best_flex /\ d_star(ranges[j]) = 0
          /\ n_star(ranges[l]) <= extractor.max_best_flex /\ d_star(ranges[l]) > 0
          /\ n_star(ranges[l]) < Len(ranges[l].positions)

\* The seeds of one pass of retrieve_seeds with the max_best_flex of the
\* recovery, sorted as generate sorts them.
single_recovery_pass ==
    LET pass == retrieve_seeds_pass(ranges, 1, RecoverFlex, extractor.max_ranges, pass_start(<<>>))
    IN  sort_by_key([i \in DOMAIN pass.seeds |-> pass.seeds[i].seed],
                    [i \in DOMAIN pass.seeds |-> pass.seeds[i].seed.rpos])

\* C16: when generate has run the recovery pass, the seeds it returns are
\* the seeds of a single pass with the max_best_flex of the recovery, and no
\* stored position of a range has yielded more than one seed.
C16_RecoveryIdempotent ==
    (stage = "seeds" /\ extractor.retried) =>
        /\ seeds = single_recovery_pass
        /\ \A i \in DOMAIN ranges : \A idx \in DOMAIN ranges[i].positions :
              Cardinality(pushed_for([seeds |-> extractor.emitted], i, idx)) <= 1

\* The reference groups of the seed list: the maximal runs of equal rval.
reference_groups ==
    { [rval |-> v, size |-> Cardinality({i \in DOMAIN seeds : seeds[i].rval = v})] :
        v \in {seeds[i].rval : i \in DOMAIN seeds} }

\* C17: a reference group is peeled into anchors only if it is among the
\* TopGroups largest groups (8 in the program) and its size is at least
\* max_size - SkipMargin (10 in the program); every other group yields no
\* anchor.
C17_GroupSelection ==
    stage = "anchors" =>
        \A g \in reference_groups :
            (\E k \in DOMAIN anchors : anchors[k].reference = g.rval) =>
                /\ Cardinality({h \in reference_groups : h.size > g.size}) < TopGroups
                /\ \A h \in reference_groups : g.size >= h.size - SkipMargin

\* The offset differences of a candidate to the root seed in the forward
\* and in the reverse frame of a read of ReadLen bases.
diff_fwd(first, next) == Abs((first.rpos - first.qpos) - (next.rpos - next.qpos))
diff_rev(first, next) ==
    Abs((first.rpos - (ReadLen - first.length - first.qpos))
        - (next.rpos - (ReadLen - next.length - next.qpos)))
wins_fwd(first, next) == diff_fwd(first, next) < diff_rev(first, next)

\* The candidates of the round (positions in `indices` after the root) whose
\* closest offset difference to the root is 0.
zero_candidates ==
    {k \in 2..Len(indices) :
        Min(diff_fwd(seeds[indices[1]], seeds[indices[k]]),
            diff_rev(seeds[indices[1]], seeds[indices[k]])) = 0}

\* The first of them commits the strand of the anchor.
first_attached == CHOOSE k \in zero_candidates : \A o \in zero_candidates : k <= o

\* The candidates the round has to attach.
to_attach ==
    {k \in zero_candidates :
        wins_fwd(seeds[indices[1]], seeds[indices[k]])
            = wins_fwd(seeds[indices[1]], seeds[indices[first_attached]])}

\* A round of the peel that ended without a panic.
peel_round_step == stage = "peel" /\ indices # <<>> /\ stage' = "peel"

C19_OrientationFromPeel ==
    [][peel_round_step =>
         LET a == anchors'[Len(anchors')]
         IN  /\ a.orientation_set <=> a.seed_count >= 2
             /\ a.seed_count = 1 + Cardinality(to_attach)
             /\ a.seed_count >= 2 =>
                   a.forward = wins_fwd(seeds[indices[1]], seeds[indices[first_attached]])
             /\ a.seed_count = 1 => ~a.orientation_set]_vars

\* The peel has finished an anchor of its root alone and an anchor that
\* gathered seeds on the forward strand.
C19_Witness ==
    /\ \E i \in DOMAIN anchors :
          ~Panicked(anchors[i]) /\ anchors[i].seed_count = 1 /\ ~anchors[i].orientation_set
    /\ \E i \in DOMAIN anchors :
          ~Panicked(anchors[i]) /\ anchors[i].seed_count >= 2 /\ anchors[i].forward

\* A seed as an AnchorSeed in the frame of the anchor.
in_frame(a, seed) ==
    LET aseed == [qpos |-> seed.qpos, rpos |-> seed.rpos, length |-> seed.length]
    IN  IF a.forward THEN aseed ELSE reverse(aseed, ReadLen)

\* C20: a seed that is merged against the rightmost AnchorSeed is ignored
\* if it is contained in it, extends it by the overhang if it starts inside
\* it with nonzero overlap and ends beyond it, replaces it (qpos, rpos and
\* length) if it contains it, and is appended if it is disjoint from it or
\* merely touches its end.  Stated for the anchor of a group of two seeds:
\* its root and the one seed attached to it.
C20_MergePolicy ==
    LET merge_policy(self, other) ==
            IF qbegin(other) >= qbegin(self) /\ qend(other) <= qend(self)
               THEN <<self>>
            ELSE IF /\ qbegin(other) >= qbegin(self)
                    /\ qbegin(other) < qend(self)
                    /\ qend(other) > qend(self)
               THEN <<[self EXCEPT !.length = self.length + (qend(other) - qend(self))]>>
            ELSE IF qbegin(other) <= qbegin(self) /\ qend(other) >= qend(self)
               THEN <<other>>
            ELSE <<self, other>>
    IN  (/\ Len(seeds) = 2
         /\ Len(anchors) = 1
         /\ ~Panicked(anchors[1])
         /\ anchors[1].seed_count = 2)
        => LET a == anchors[1]
               s == in_frame(a, seeds[1])
               aseed == in_frame(a, seeds[2])
           IN  (/\ ~(s.qpos = seeds[2].qpos /\ s.rpos = seeds[2].rpos)
                /\ aseed.qpos >= s.qpos)
               => a.seeds = merge_policy(s, aseed)

----------------------------------------------------------------------------
\* Properties of the paired anchor extraction.

\* The anchors peeled from the group of mate `forward` on reference v, the
\* empty list when the mate has no seed there.
peeled_of(v, forward) ==
    LET at == {i \in DOMAIN groups : groups[i].reference = v /\ groups[i].forward = forward}
    IN  IF at = {} THEN <<>>
        ELSE peel_group(IF forward THEN seeds[1] ELSE seeds[2],
                        groups[CHOOSE i \in at : TRUE], PairReadLen)

\* The references on which the two mates' anchors are enumerated.
enumerated(v) ==
    /\ peeled_of(v, TRUE) # <<>>
    /\ peeled_of(v, FALSE) # <<>>
    /\ Len(peeled_of(v, TRUE)) > 1 \/ Len(peeled_of(v, FALSE)) > 1

\* The AnchorPair of the combination (a_fwd, a_rev) is in the returned list.
emitted(v, a_fwd, a_rev) ==
    \E k \in DOMAIN pairs :
        pairs[k] = AnchorPair_resolve_orientation(
                       [reference |-> v, fwd |-> <<a_fwd>>, rev |-> <<a_rev>>],
                       PairReadLen, PairReadLen)

\* C21: on a reference with groups of both mates of which some side has more
\* than one anchor, a combination (mate-1 anchor, mate-2 anchor) is emitted
\* as an AnchorPair if and only if its insert size is <= InsertMax (1000 in
\* the program); a combination of insert size exactly InsertMax is kept.
C21_InsertSizeInclusive ==
    stage = "pairs" =>
        \A v \in 1..PairRefs :
            enumerated(v) =>
                \A i \in DOMAIN peeled_of(v, TRUE), j \in DOMAIN peeled_of(v, FALSE) :
                    emitted(v, peeled_of(v, TRUE)[i], peeled_of(v, FALSE)[j])
                    <=> insert_size(peeled_of(v, TRUE)[i], peeled_of(v, FALSE)[j],
                                    PairReadLen, PairReadLen) <= InsertMax

\* The returned anchor x is the peeled anchor a, as it was or with its one
\* seed reversed by set_forward.
same_anchor(x, a) ==
    /\ x.seed_count = a.seed_count
    /\ \/ x.seeds = a.seeds
       \/ Len(a.seeds) = 1 /\ x.seeds = <<reverse(a.seeds[1], PairReadLen)>>

\* The returned pair p was made of the peeled anchors a_fwd and a_rev, of
\* which the peel set the strand of `set` only.
made_of(p, set, other, a_set, a_other) ==
    /\ a_set.orientation_set /\ ~a_other.orientation_set
    /\ set = a_set
    /\ same_anchor(other, a_other)

\* The strand of `other` was inferred from `set`.
inferred(set, other) == other.orientation_set /\ other.forward = ~set.forward

\* C22: in every returned AnchorPair with both mates present of which
\* exactly one mate had its strand set during peeling, the other mate has
\* orientation_set = TRUE and the opposite strand, whether each side has at
\* most one anchor or the pairs are enumerated by insert size.
C22_OrientationResolved ==
    stage = "pairs" =>
        \A k \in DOMAIN pairs :
            (pairs[k].fwd # <<>> /\ pairs[k].rev # <<>>) =>
                \A i \in DOMAIN peeled_of(pairs[k].reference, TRUE),
                   j \in DOMAIN peeled_of(pairs[k].reference, FALSE) :
                    /\ made_of(pairs[k], pairs[k].fwd[1], pairs[k].rev[1],
                               peeled_of(pairs[k].reference, TRUE)[i],
                               peeled_of(pairs[k].reference, FALSE)[j])
                         => inferred(pairs[k].fwd[1], pairs[k].rev[1])
                    /\ made_of(pairs[k], pairs[k].rev[1], pairs[k].fwd[1],
                               peeled_of(pairs[k].reference, FALSE)[j],
                               peeled_of(pairs[k].reference, TRUE)[i])
                         => inferred(pairs[k].rev[1], pairs[k].fwd[1])

\* The returned pairs of reference v.
pairs_on(v) == {k \in DOMAIN pairs : pairs[k].reference = v}

\* The anchors of `list` are returned as unpaired AnchorPairs of reference
\* v, one each and nothing else on v.
unpaired_emitted(v, list, forward) ==
    /\ Cardinality(pairs_on(v)) = Len(list)
    /\ \A i \in DOMAIN list :
          \E k \in pairs_on(v) :
              pairs[k] = IF forward
                         THEN [reference |-> v, fwd |-> <<list[i]>>, rev |-> <<>>]
                         ELSE [reference |-> v, fwd |-> <<>>, rev |-> <<list[i]>>]

\* C23: for every reference on which only one mate has a seed group, one
\* unpaired AnchorPair (the other side None) is returned per anchor peeled
\* from that group, also when the group is the last one in (reference, mate)
\* order and when it is the only group of the record.
C23_UnpairedEmitted ==
    stage = "pairs" =>
        \A v \in 1..PairRefs :
            /\ (peeled_of(v, TRUE) # <<>> /\ peeled_of(v, FALSE) = <<>>)
                  => unpaired_emitted(v, peeled_of(v, TRUE), TRUE)
            /\ (peeled_of(v, FALSE) # <<>> /\ peeled_of(v, TRUE) = <<>>)
                  => unpaired_emitted(v, peeled_of(v, FALSE), FALSE)

----------------------------------------------------------------------------
\* Properties of orientation fixing.

Configs == {"QuerySeed", "QuerySeedRC", "QueryRCSeed", "QueryRCSeedRC"}

\* The seed as configuration c reads it, and the strand of the read c names.
seed_under(seed, c, read_length) ==
    IF c \in {"QuerySeedRC", "QueryRCSeedRC"} THEN reverse(seed, read_length) ELSE seed

forward_under(c) == c \in {"QuerySeed", "QuerySeedRC"}

matches_under(seed, c) ==
    seed_match(seed_under(seed, c, Len(query)),
               IF forward_under(c) THEN query ELSE revcomp(query), reference)

\* No single configuration makes all seeds of the anchor match.
mixed(anc) == \A c \in Configs : \E i \in DOMAIN anc.seeds : ~matches_under(anc.seeds[i], c)

matching_seeds(anc) ==
    {i \in DOMAIN anc.seeds : \E c \in Configs : matches_under(anc.seeds[i], c)}

first_matching(anc) == CHOOSE i \in matching_seeds(anc) : \A j \in matching_seeds(anc) : i <= j

\* `out` is `anc` cut down to its first matching seed under that seed's
\* configuration.
kept_first_matching(anc, out) ==
    LET seed == anc.seeds[first_matching(anc)]
        c == get_seed_config(seed, query, revcomp(query), reference)
    IN  /\ ~Panicked(out)
        /\ out.seeds = <<seed_under(seed, c, Len(query))>>
        /\ out.forward = forward_under(c)
        /\ are_all_seeds_valid(out, strand(out, query, revcomp(query)), reference)

\* C24: when the seeds of an anchor do not all match the reference under one
\* (strand x seed-frame) configuration, fix_anchor keeps exactly one seed,
\* the first seed that matches under some configuration, sets the anchor's
\* configuration to that seed's and discards the other seeds, leaving an
\* anchor whose single seed matches.
C24_MixedAnchorSplit ==
    [][(stage = "pairs" /\ stage' # "pairs") =>
          \A i \in DOMAIN pairs' :
              (/\ ~first_two_swapped(pairs[i].a1)
               /\ mixed(pairs[i].a1)
               /\ matching_seeds(pairs[i].a1) # {})
                  => kept_first_matching(pairs[i].a1, pairs'[i].a1)]_vars

----------------------------------------------------------------------------
\* Termination of the peel.

RECURSIVE seed_count_sum(_, _)
seed_count_sum(list, i) ==
    IF i = 0 THEN 0 ELSE list[i].seed_count + seed_count_sum(list, i - 1)

\* Every seed of the group is either still to be looked at or counted in
\* one anchor, and no round went by without an anchor.
peel_accounts ==
    stage \in {"peel", "anchors"} =>
        /\ seed_count_sum(anchors, Len(anchors)) + Len(indices) = Len(seeds)
        /\ Len(anchors) + Len(indices) <= Len(seeds)
        /\ \A i \in DOMAIN anchors : anchors[i].seed_count >= 1

\* The peel returned: between 1 and n anchors that count n seeds together.
peel_returned ==
    /\ stage = "anchors"
    /\ indices = <<>>
    /\ 1 <= Len(anchors) /\ Len(anchors) <= Len(seeds)
    /\ seed_count_sum(anchors, Len(anchors)) = Len(seeds)

\* C27: peeling a reference group of n >= 1 seeds terminates and consumes
\* every seed exactly once: the loop ends after at most n rounds, produces
\* between 1 and n anchors, and the seed_count of the anchors adds up to n.
C27_PeelTerminates ==
    /\ []peel_accounts
    /\ [][peel_round_step => Len(indices') < Len(indices)]_vars
    /\ (stage = "peel") ~> peel_returned

\* A group of MaxSeeds seeds peeled into more than one anchor, one of them
\* of more than one seed.
C27_Witness ==
    /\ peel_returned
    /\ Len(seeds) = MaxSeeds
    /\ Len(anchors) > 1
    /\ \E i \in DOMAIN anchors : anchors[i].seed_count > 1

----------------------------------------------------------------------------
\* Properties of the seed extension and of the alignment of the gaps.

\* AnchorSeed t lies on the diagonal of s and spans it.
covers(t, s) ==
    /\ t.rpos - t.qpos = s.rpos - s.qpos
    /\ qbegin(t) <= qbegin(s)
    /\ qend(s) <= qend(t)

\* Every base between the adjacent seeds s1 and s2 matches (an empty gap
\* included).
gap_matches(s1, s2, sq, ref) ==
    \A d \in 1..(qbegin(s2) - qend(s1)) : sq[qend(s1) + d] = ref[rend(s1) + d]

\* The gap between the adjacent seeds t1 and t2 is not empty and begins and
\* ends with a mismatching base.
gap_closed_off(t1, t2, sq, ref) ==
    /\ qend(t1) < qbegin(t2)
    /\ sq[qend(t1) + 1] # ref[rend(t1) + 1]
    /\ sq[qbegin(t2)] # ref[rbegin(t2)]

\* `after` is what the extension of the gaps makes of `before`: seeds are
\* merged exactly over the gaps that match entirely, none is lost or
\* added, every seed still matches and every gap that is left is closed off
\* by a mismatch on both sides.
middle_extended(before, after, sq, ref) ==
    /\ after.forward = before.forward
    /\ \A i \in DOMAIN before.seeds :
          \E k \in DOMAIN after.seeds : covers(after.seeds[k], before.seeds[i])
    /\ \A k \in DOMAIN after.seeds :
          \E i \in DOMAIN before.seeds : covers(after.seeds[k], before.seeds[i])
    /\ \A i \in 1..(Len(before.seeds) - 1) :
          gap_matches(before.seeds[i], before.seeds[i + 1], sq, ref)
          <=> \E k \in DOMAIN after.seeds :
                  /\ covers(after.seeds[k], before.seeds[i])
                  /\ covers(after.seeds[k], before.seeds[i + 1])
    /\ are_all_seeds_valid(after, sq, ref)
    /\ \A k \in 1..(Len(after.seeds) - 1) :
          gap_closed_off(after.seeds[k], after.seeds[k + 1], sq, ref)

Budgets == (0 - MismatchPenalty)..ani_abort_score(MismatchPenalty, Len(query))

\* Mismatching bases of the gap after seed k of the anchor.
gap_mismatches(anc, k, sq, ref) ==
    Cardinality({d \in 1..(qbegin(anc.seeds[k + 1]) - qend(anc.seeds[k])) :
                    sq[qend(anc.seeds[k]) + d] # ref[rend(anc.seeds[k]) + d]})

\* Mismatching bases of the first k gaps.
RECURSIVE mismatches_upto(_, _, _, _)
mismatches_upto(anc, k, sq, ref) ==
    IF k = 0 THEN 0
    ELSE gap_mismatches(anc, k, sq, ref) + mismatches_upto(anc, k - 1, sq, ref)

\* The gaps after which the budget is negative.
overdrawn(anc, budget, sq, ref) ==
    {k \in 1..(Len(anc.seeds) - 1) :
        budget - MismatchPenalty * mismatches_upto(anc, k, sq, ref) < 0}

\* The CIGAR symbol of read position p (from 0) of an anchor whose seeds lie
\* on one diagonal: M inside a seed, M or X in a gap.
middle_symbol(anc, p, sq, ref) ==
    IF \E k \in DOMAIN anc.seeds : qbegin(anc.seeds[k]) <= p /\ p < qend(anc.seeds[k])
    THEN "M"
    ELSE IF sq[p + 1] = ref[p + (anc.seeds[1].rpos - anc.seeds[1].qpos) + 1] THEN "M" ELSE "X"

\* What align_middle is to return for the anchor and the budget.
middle_result(anc, budget, sq, ref, m) ==
    LET gaps == Len(anc.seeds) - 1
        first == qbegin(anc.seeds[1])
        last == qend(anc.seeds[Len(anc.seeds)])
    IN  /\ m.err = ""
        /\ (m.status = "Dropped") = (overdrawn(anc, budget, sq, ref) # {})
        /\ m.status \in {"OK", "Dropped"}
        /\ m.status = "Dropped" => m.score = MinI32
        /\ m.status = "OK" =>
              /\ m.score = 0 - MismatchPenalty * mismatches_upto(anc, gaps, sq, ref)
              /\ m.score = 0 - MismatchPenalty
                               * Cardinality({i \in DOMAIN m.anchor.cigar :
                                                 m.anchor.cigar[i] = "X"})
              /\ m.anchor.cigar = [i \in 1..(last - first) |->
                                      middle_symbol(anc, first + i - 1, sq, ref)]

\* C26: align_middle deducts MismatchPenalty (4) per mismatching gap base
\* from the budget and returns Dropped exactly when the budget is negative
\* after some gap; otherwise it returns OK with the score -4 times the
\* number of X appended, having appended one M per base of every seed and
\* one M or X per base of every gap.
C26_AlignMiddleBudget ==
    stage = "sorted" =>
        \A i \in 1..Min(align_top_y, Len(pairs)) :
            \A budget \in Budgets :
                middle_result(pairs[i].a1, budget, resolved(pairs[i].a1), reference,
                              align_middle([pairs[i].a1 EXCEPT !.cigar = <<>>],
                                           resolved(pairs[i].a1), reference, budget))

\* An anchor with a mismatch in a gap that is aligned within the budget of
\* the read and dropped with a budget below the penalty.
C26_Witness ==
    /\ stage = "sorted"
    /\ \E i \in 1..Min(align_top_y, Len(pairs)) :
          /\ Len(pairs[i].a1.seeds) >= 2
          /\ align_middle([pairs[i].a1 EXCEPT !.cigar = <<>>], resolved(pairs[i].a1),
                          reference, MismatchPenalty).status = "OK"
          /\ align_middle([pairs[i].a1 EXCEPT !.cigar = <<>>], resolved(pairs[i].a1),
                          reference, MismatchPenalty).score = 0 - MismatchPenalty
          /\ align_middle([pairs[i].a1 EXCEPT !.cigar = <<>>], resolved(pairs[i].a1),
                          reference, MismatchPenalty - 1).status = "Dropped"

\* C30: the 32-bit signed score arithmetic of smart_align never overflows:
\* whatever the left flank, the middle and the right flank return (a middle
\* stage that returns Dropped with the score i32::MIN after a left flank of
\* negative score included), every addition to alignment_score and to
\* max_score stays within the range of i32.
C30_ScoreArithmeticInRange ==
    \A i \in DOMAIN pairs : pairs[i].a1.panic # "attempt to add with overflow"


----------------------------------------------------------------------------
\* Callers of set_forward.

\* C28: Anchor::set_forward is only ever invoked on an anchor that holds
\* exactly one AnchorSeed, so its assertion seeds.len() == 1 fails on no
\* path: no anchor of the peel and no anchor of a pair carries the failed
\* assertion.
C28_SetForwardOneSeed ==
    /\ \A i \in DOMAIN anchors : anchors[i].panic # "assert one seed"
    /\ \A i \in DOMAIN pairs : pairs[i].a1.panic # "assert one seed"


----------------------------------------------------------------------------
\* The score ceiling over the alignment loop.

\* The ceiling handed to smart_align for the i-th pair of the list, from the
\* scores the anchors before it were left with.
RECURSIVE ceiling_at(_, _)
ceiling_at(ps, i) ==
    IF i = 1 THEN ani_abort_score(MismatchPenalty, Len(query))
    ELSE lower_ceiling(ceiling_at(ps, i - 1), ps[i - 1].a1.score)

\* C29: while the top anchors of one record are aligned in order, the score
\* ceiling passed to smart_align stays within 0 and twice the read length:
\* it starts at the ANI-derived ceiling, never increases and never becomes
\* negative, whatever OK and Dropped outcomes the earlier anchors produced.
C29_CeilingInRange ==
    stage = "aligned" =>
        \A i \in 1..Min(align_top_y, Len(pairs)) :
            /\ 0 <= ceiling_at(pairs, i)
            /\ ceiling_at(pairs, i) <= 2 * Len(query)
            /\ i > 1 => ceiling_at(pairs, i) <= ceiling_at(pairs, i - 1)

====
